---------------------------- MODULE Spec2Model ----------------------------
(***************************************************************************)
(* A model of the Claude Code proxy (undead2146/ClaudeProxy): the router,  *)
(* the request dispatcher and its backend adapters, the OAuth credential   *)
(* manager, the authentication middleware and the token usage tracker.     *)
(*                                                                         *)
(* Python strings that the code searches (model names, header values) are  *)
(* sequences of one-character strings, so that lower(), startswith() and   *)
(* the `in` substring test are computed, not assumed.                      *)
(***************************************************************************)
EXTENDS Integers, Sequences, FiniteSets, TLC

(***************************************************************************)
(* Python string primitives.                                               *)
(***************************************************************************)
UpperLetters ==
  <<"A", "B", "C", "D", "E", "F", "G", "H", "I", "J", "K", "L", "M",
    "N", "O", "P", "Q", "R", "S", "T", "U", "V", "W", "X", "Y", "Z">>

LowerLetters ==
  <<"a", "b", "c", "d", "e", "f", "g", "h", "i", "j", "k", "l", "m",
    "n", "o", "p", "q", "r", "s", "t", "u", "v", "w", "x", "y", "z">>

\* str.lower() on one character
LowerChar(c) ==
  IF \E i \in 1..Len(UpperLetters) : UpperLetters[i] = c
  THEN LowerLetters[CHOOSE i \in 1..Len(UpperLetters) : UpperLetters[i] = c]
  ELSE c

\* str.lower()
Lower(s) == [i \in 1..Len(s) |-> LowerChar(s[i])]

\* s.startswith(p)
StartsWith(s, p) ==
  /\ Len(p) <= Len(s)
  /\ \A i \in 1..Len(p) : s[i] = p[i]

\* sub in s
Contains(s, sub) ==
  \E k \in 0..(Len(s) - Len(sub)) :
    \A i \in 1..Len(sub) : s[k + i] = sub[i]

\* position (0-based offset) of the first occurrence of sub in s
FirstOcc(s, sub) ==
  CHOOSE k \in 0..(Len(s) - Len(sub)) :
    /\ \A i \in 1..Len(sub) : s[k + i] = sub[i]
    /\ \A j \in 0..(k - 1) : \E i \in 1..Len(sub) : s[j + i] # sub[i]

\* s.replace(sub, "") for a non-empty sub
RECURSIVE RemoveAll(_, _)
RemoveAll(s, sub) ==
  IF ~Contains(s, sub) THEN s
  ELSE LET k == FirstOcc(s, sub)
       IN SubSeq(s, 1, k) \o RemoveAll(SubSeq(s, k + Len(sub) + 1, Len(s)), sub)

\* dict.get(key, default) on a JSON object, a function on the keys it holds
Get(d, key, default) == IF key \in DOMAIN d THEN d[key] ELSE default

\* truth value of a Python str
TruthyStr(s) == s # <<>>

\* None, for values that are either None or a token
None == "None"

\* truth value of an optional token (a key or a URL read from the environment)
Truthy(x) == x # None /\ x # ""

\* an optional string whose characters matter: None, and str
Unset == [set |-> FALSE, value |-> <<>>]

Str(v) == [set |-> TRUE, value |-> v]

\* truth value of an optional string
TruthyOpt(o) == o.set /\ o.value # <<>>

\* a JSON value that is a list, and one that is a string
JList(l) == [list |-> l]

JStr(v) == [str |-> v]

\* isinstance(d.get(key), list)
IsListAt(d, key) == key \in DOMAIN d /\ "list" \in DOMAIN d[key]

\* isinstance(d.get(key), str)
IsStrAt(d, key) == key \in DOMAIN d /\ "str" \in DOMAIN d[key]

\* isinstance(j, dict), for a JSON value that is an object, a list or a string
IsDict(j) == "list" \notin DOMAIN j /\ "str" \notin DOMAIN j

\* {}
EmptyObject == [x \in {} |-> 0]

\* del d[key]
DelKey(d, key) == [x \in (DOMAIN d) \ {key} |-> d[x]]

\* the keys of d that are not in allowed are deleted
KeepKeys(d, allowed) == [x \in (DOMAIN d) \cap allowed |-> d[x]]

\* d[key] = value
SetKey(d, key, value) == (key :> value) @@ d

(***************************************************************************)
(* The words the code searches for.                                        *)
(***************************************************************************)
\* "haiku"
W_haiku ==
  <<"h", "a", "i", "k", "u">>
\* "sonnet"
W_sonnet ==
  <<"s", "o", "n", "n", "e", "t">>
\* "opus"
W_opus ==
  <<"o", "p", "u", "s">>
\* "flash"
W_flash ==
  <<"f", "l", "a", "s", "h">>
\* "5"
W_5 ==
  <<"5">>
\* "glm-"
W_glm_ ==
  <<"g", "l", "m", "-">>
\* "zai-"
W_zai_ ==
  <<"z", "a", "i", "-">>
\* "gemini-"
W_gemini_ ==
  <<"g", "e", "m", "i", "n", "i", "-">>
\* "[1m]"
W_1m ==
  <<"[", "1", "m", "]">>
\* "sonnet-3-7"
W_sonnet_3_7 ==
  <<"s", "o", "n", "n", "e", "t", "-", "3", "-", "7">>
\* "sonnet-4-5"
W_sonnet_4_5 ==
  <<"s", "o", "n", "n", "e", "t", "-", "4", "-", "5">>
\* "claude-3-7"
W_claude_3_7 ==
  <<"c", "l", "a", "u", "d", "e", "-", "3", "-", "7">>
\* "opus-4-5"
W_opus_4_5 ==
  <<"o", "p", "u", "s", "-", "4", "-", "5">>

(***************************************************************************)
(* core/config.py: the static options, at their defaults.                  *)
(***************************************************************************)
\* "glm-4.7"
ZAI_HAIKU_MODEL ==
  <<"g", "l", "m", "-", "4", ".", "7">>
\* "glm-4.7"
ZAI_SONNET_MODEL ==
  <<"g", "l", "m", "-", "4", ".", "7">>
\* "glm-4.7"
ZAI_OPUS_MODEL ==
  <<"g", "l", "m", "-", "4", ".", "7">>
\* "gemini-3-pro-high"
ANTIGRAVITY_SONNET_MODEL ==
  <<"g", "e", "m", "i", "n", "i", "-", "3", "-", "p", "r", "o", "-", "h", "i", "g", "h">>
\* "gemini-3-flash"
ANTIGRAVITY_HAIKU_MODEL ==
  <<"g", "e", "m", "i", "n", "i", "-", "3", "-", "f", "l", "a", "s", "h">>
\* "gemini-3-pro-high"
ANTIGRAVITY_OPUS_MODEL ==
  <<"g", "e", "m", "i", "n", "i", "-", "3", "-", "p", "r", "o", "-", "h", "i", "g", "h">>
\* "claude-opus-4.5"
GITHUB_COPILOT_OPUS_MODEL ==
  <<"c", "l", "a", "u", "d", "e", "-", "o", "p", "u", "s", "-", "4", ".", "5">>
\* "anthropic/claude-sonnet-4.5"
OPENROUTER_SONNET_MODEL ==
  <<"a", "n", "t", "h", "r", "o", "p", "i", "c", "/", "c", "l", "a", "u", "d", "e", "-", "s", "o", "n", "n", "e", "t", "-", "4", ".", "5">>
\* "anthropic/claude-haiku-4.5"
OPENROUTER_HAIKU_MODEL ==
  <<"a", "n", "t", "h", "r", "o", "p", "i", "c", "/", "c", "l", "a", "u", "d", "e", "-", "h", "a", "i", "k", "u", "-", "4", ".", "5">>
\* "anthropic/claude-opus-4.5"
OPENROUTER_OPUS_MODEL ==
  <<"a", "n", "t", "h", "r", "o", "p", "i", "c", "/", "c", "l", "a", "u", "d", "e", "-", "o", "p", "u", "s", "-", "4", ".", "5">>
\* "claude-sonnet-4.5"
CUSTOM_PROVIDER_SONNET_MODEL ==
  <<"c", "l", "a", "u", "d", "e", "-", "s", "o", "n", "n", "e", "t", "-", "4", ".", "5">>
\* "claude-haiku-4.5"
CUSTOM_PROVIDER_HAIKU_MODEL ==
  <<"c", "l", "a", "u", "d", "e", "-", "h", "a", "i", "k", "u", "-", "4", ".", "5">>
\* "claude-opus-4.5"
CUSTOM_PROVIDER_OPUS_MODEL ==
  <<"c", "l", "a", "u", "d", "e", "-", "o", "p", "u", "s", "-", "4", ".", "5">>
\* "claude-3-5-haiku-20241022"
ANTHROPIC_HAIKU_MODEL ==
  <<"c", "l", "a", "u", "d", "e", "-", "3", "-", "5", "-", "h", "a", "i", "k", "u", "-", "2", "0", "2", "4", "1", "0", "2", "2">>
\* "claude-sonnet-4-5-20250929"
DEFAULT_REQUEST_MODEL ==
  <<"c", "l", "a", "u", "d", "e", "-", "s", "o", "n", "n", "e", "t", "-", "4", "-", "5", "-", "2", "0", "2", "5", "0", "9", "2", "9">>

\* ANTIGRAVITY_BASE_URL, GITHUB_COPILOT_BASE_URL, OPENROUTER_BASE_URL, ANTHROPIC_BASE_URL
ANTIGRAVITY_BASE_URL == "http://localhost:8081"

GITHUB_COPILOT_BASE_URL == "http://localhost:4141"

OPENROUTER_BASE_URL == "https://openrouter.ai/api"

ANTHROPIC_BASE_URL == "https://api.anthropic.com"

\* the provider names POST /config accepts
valid_providers ==
  {"antigravity", "zai", "glm", "anthropic", "copilot", "openrouter", "custom"}

(***************************************************************************)
(* State.                                                                  *)
(***************************************************************************)
VARIABLES
  env,             \* the process environment read by core/config.py at import
  runtime_config,  \* core/config.py runtime_config
  rt,              \* one call of get_provider_config: its argument and result
  now,             \* the wall clock, in milliseconds since the epoch
  creds,           \* ~/.claude/.credentials.json and its claudeAiOauth object
  oauth_refresh_lock,          \* core/oauth.py oauth_refresh_lock: its holder, 0 if free
  last_oauth_refresh_failure,  \* core/oauth.py _last_oauth_refresh_failure, epoch seconds
  th,              \* the callers of get_oauth_token: position and local variables
  posts,           \* history: the POSTs made to the OAuth token endpoint
  ticks,           \* history: how often the clock has advanced
  data,            \* services/token_tracker.py TokenUsageTracker.data
  storage_file,    \* token_usage.json
  recorded,        \* history: the calls of record_usage, in order
  px,              \* one request in proxy_request: position and local variables
  served,          \* history: how many requests proxy_request has answered
  mw,              \* one request in APIKeyMiddleware.dispatch
  config_file,     \* config.json
  cf,              \* the requests in update_config_endpoint: position and local variables
  sz,              \* one body and what sanitize_for_custom makes of it, once and twice
  tk,              \* the life of one TokenUsageTracker: its last call, and a reload
  lk,              \* core/config.py config_lock, the event loop, and the handlers on it
  agp              \* services/antigravity.py antigravity_process, the helper, and the
                   \* invocations of stop_antigravity_server on the main thread

(***************************************************************************)
(* core/routing.py: get_provider_config.                                   *)
(***************************************************************************)
RouteResult(api_key, base_url, tier, translated_model, provider_type) ==
  [api_key |-> api_key, base_url |-> base_url, tier |-> tier,
   translated_model |-> translated_model, provider_type |-> provider_type]

\* DetectTier with the glm-/zai- rule looking for "flash" only
DetectTier_FlashOnly(model) ==
  LET model_lower == Lower(model) IN
  IF TruthyStr(ZAI_HAIKU_MODEL) /\ model = ZAI_HAIKU_MODEL THEN "Haiku"
  ELSE IF TruthyStr(ZAI_SONNET_MODEL) /\ model = ZAI_SONNET_MODEL THEN "Sonnet"
  ELSE IF TruthyStr(ZAI_OPUS_MODEL) /\ model = ZAI_OPUS_MODEL THEN "Opus"
  ELSE IF TruthyStr(ANTIGRAVITY_HAIKU_MODEL) /\ model = ANTIGRAVITY_HAIKU_MODEL THEN "Haiku"
  ELSE IF TruthyStr(ANTIGRAVITY_SONNET_MODEL) /\ model = ANTIGRAVITY_SONNET_MODEL THEN "Sonnet"
  ELSE IF TruthyStr(ANTIGRAVITY_OPUS_MODEL) /\ model = ANTIGRAVITY_OPUS_MODEL THEN "Opus"
  ELSE IF Contains(model_lower, W_haiku) THEN "Haiku"
  ELSE IF Contains(model_lower, W_sonnet) THEN "Sonnet"
  ELSE IF Contains(model_lower, W_opus) THEN "Opus"
  ELSE IF StartsWith(model_lower, W_glm_) \/ StartsWith(model_lower, W_zai_)
       THEN IF Contains(model_lower, W_flash) THEN "Haiku" ELSE "Sonnet"
  ELSE IF StartsWith(model_lower, W_gemini_)
       THEN IF Contains(model_lower, W_flash) THEN "Haiku" ELSE "Sonnet"
  ELSE "Unknown"

\* lines 38-73: the tier detected from the model name, "Unknown" if no rule matches
DetectTier(model) ==
  LET model_lower == Lower(model) IN
  IF TruthyStr(ZAI_HAIKU_MODEL) /\ model = ZAI_HAIKU_MODEL THEN "Haiku"
  ELSE IF TruthyStr(ZAI_SONNET_MODEL) /\ model = ZAI_SONNET_MODEL THEN "Sonnet"
  ELSE IF TruthyStr(ZAI_OPUS_MODEL) /\ model = ZAI_OPUS_MODEL THEN "Opus"
  ELSE IF TruthyStr(ANTIGRAVITY_HAIKU_MODEL) /\ model = ANTIGRAVITY_HAIKU_MODEL THEN "Haiku"
  ELSE IF TruthyStr(ANTIGRAVITY_SONNET_MODEL) /\ model = ANTIGRAVITY_SONNET_MODEL THEN "Sonnet"
  ELSE IF TruthyStr(ANTIGRAVITY_OPUS_MODEL) /\ model = ANTIGRAVITY_OPUS_MODEL THEN "Opus"
  ELSE IF Contains(model_lower, W_haiku) THEN "Haiku"
  ELSE IF Contains(model_lower, W_sonnet) THEN "Sonnet"
  ELSE IF Contains(model_lower, W_opus) THEN "Opus"
  ELSE IF StartsWith(model_lower, W_glm_) \/ StartsWith(model_lower, W_zai_)
       THEN IF Contains(model_lower, W_5) \/ Contains(model_lower, W_flash)
            THEN "Haiku" ELSE "Sonnet"
  ELSE IF StartsWith(model_lower, W_gemini_)
       THEN IF Contains(model_lower, W_flash) THEN "Haiku" ELSE "Sonnet"
  ELSE "Unknown"

\* lines 87-116
RouteSonnet(model, current_sonnet_provider, sonnet_model, e) ==
  LET tier == "Sonnet" IN
  IF current_sonnet_provider = "antigravity" /\ e.ANTIGRAVITY_ENABLED
  THEN RouteResult(None, ANTIGRAVITY_BASE_URL, tier, sonnet_model, "antigravity")
  ELSE IF current_sonnet_provider \in {"glm", "zai"}
          /\ Truthy(e.SONNET_PROVIDER_API_KEY) /\ Truthy(e.SONNET_PROVIDER_BASE_URL)
  THEN RouteResult(e.SONNET_PROVIDER_API_KEY, e.SONNET_PROVIDER_BASE_URL, tier,
                   IF TruthyStr(sonnet_model) THEN sonnet_model ELSE ZAI_SONNET_MODEL, "zai")
  ELSE IF current_sonnet_provider = "copilot" /\ e.ENABLE_COPILOT
  THEN RouteResult(None, GITHUB_COPILOT_BASE_URL, tier, sonnet_model, "copilot")
  ELSE IF current_sonnet_provider = "openrouter" /\ Truthy(e.OPENROUTER_API_KEY)
  THEN RouteResult(e.OPENROUTER_API_KEY, OPENROUTER_BASE_URL, tier,
                   OPENROUTER_SONNET_MODEL, "openrouter")
  ELSE IF current_sonnet_provider = "custom"
          /\ Truthy(e.CUSTOM_PROVIDER_API_KEY) /\ Truthy(e.CUSTOM_PROVIDER_BASE_URL)
  THEN RouteResult(e.CUSTOM_PROVIDER_API_KEY, e.CUSTOM_PROVIDER_BASE_URL, tier,
                   CUSTOM_PROVIDER_SONNET_MODEL, "custom")
  ELSE IF current_sonnet_provider = "anthropic"
  THEN RouteResult(None, None, tier, model, "anthropic")
  ELSE RouteResult(None, None, tier, model, "misconfigured")

\* lines 118-145
RouteHaiku(model, current_haiku_provider, haiku_model, e) ==
  LET tier == "Haiku" IN
  IF current_haiku_provider = "antigravity" /\ e.ANTIGRAVITY_ENABLED
  THEN RouteResult(None, ANTIGRAVITY_BASE_URL, tier, haiku_model, "antigravity")
  ELSE IF current_haiku_provider \in {"glm", "zai"}
          /\ Truthy(e.HAIKU_PROVIDER_API_KEY) /\ Truthy(e.HAIKU_PROVIDER_BASE_URL)
  THEN RouteResult(e.HAIKU_PROVIDER_API_KEY, e.HAIKU_PROVIDER_BASE_URL, tier,
                   IF TruthyStr(haiku_model) THEN haiku_model ELSE ZAI_HAIKU_MODEL, "zai")
  ELSE IF current_haiku_provider = "copilot" /\ e.ENABLE_COPILOT
  THEN RouteResult(None, GITHUB_COPILOT_BASE_URL, tier, haiku_model, "copilot")
  ELSE IF current_haiku_provider = "openrouter" /\ Truthy(e.OPENROUTER_API_KEY)
  THEN RouteResult(e.OPENROUTER_API_KEY, OPENROUTER_BASE_URL, tier,
                   OPENROUTER_HAIKU_MODEL, "openrouter")
  ELSE IF current_haiku_provider = "custom"
          /\ Truthy(e.CUSTOM_PROVIDER_API_KEY) /\ Truthy(e.CUSTOM_PROVIDER_BASE_URL)
  THEN RouteResult(e.CUSTOM_PROVIDER_API_KEY, e.CUSTOM_PROVIDER_BASE_URL, tier,
                   CUSTOM_PROVIDER_HAIKU_MODEL, "custom")
  ELSE IF current_haiku_provider = "anthropic"
  THEN RouteResult(None, None, tier, model, "anthropic")
  ELSE RouteResult(None, None, tier, model, "misconfigured")

\* lines 147-174
RouteOpus(model, current_opus_provider, opus_model, e) ==
  LET tier == "Opus" IN
  IF current_opus_provider = "antigravity" /\ e.ANTIGRAVITY_ENABLED
  THEN RouteResult(None, ANTIGRAVITY_BASE_URL, tier, opus_model, "antigravity")
  ELSE IF current_opus_provider \in {"glm", "zai"}
          /\ Truthy(e.OPUS_PROVIDER_API_KEY) /\ Truthy(e.OPUS_PROVIDER_BASE_URL)
  THEN RouteResult(e.OPUS_PROVIDER_API_KEY, e.OPUS_PROVIDER_BASE_URL, tier,
                   IF TruthyStr(opus_model) THEN opus_model ELSE ZAI_OPUS_MODEL, "zai")
  ELSE IF current_opus_provider = "copilot" /\ e.ENABLE_COPILOT
  THEN RouteResult(None, GITHUB_COPILOT_BASE_URL, tier, GITHUB_COPILOT_OPUS_MODEL, "copilot")
  ELSE IF current_opus_provider = "openrouter" /\ Truthy(e.OPENROUTER_API_KEY)
  THEN RouteResult(e.OPENROUTER_API_KEY, OPENROUTER_BASE_URL, tier,
                   OPENROUTER_OPUS_MODEL, "openrouter")
  ELSE IF current_opus_provider = "custom"
          /\ Truthy(e.CUSTOM_PROVIDER_API_KEY) /\ Truthy(e.CUSTOM_PROVIDER_BASE_URL)
  THEN RouteResult(e.CUSTOM_PROVIDER_API_KEY, e.CUSTOM_PROVIDER_BASE_URL, tier,
                   CUSTOM_PROVIDER_OPUS_MODEL, "custom")
  ELSE IF current_opus_provider = "anthropic"
  THEN RouteResult(None, None, tier, model, "anthropic")
  ELSE RouteResult(None, None, tier, model, "misconfigured")

\* lines 176-186: no rule matched, the haiku provider is read again
RouteUnknown(model, current_haiku_provider, haiku_model, e) ==
  IF current_haiku_provider = "antigravity" /\ e.ANTIGRAVITY_ENABLED
  THEN RouteResult(None, ANTIGRAVITY_BASE_URL, "Haiku", ANTIGRAVITY_HAIKU_MODEL, "antigravity")
  ELSE IF current_haiku_provider \in {"glm", "zai"}
          /\ Truthy(e.HAIKU_PROVIDER_API_KEY) /\ Truthy(e.HAIKU_PROVIDER_BASE_URL)
  THEN RouteResult(e.HAIKU_PROVIDER_API_KEY, e.HAIKU_PROVIDER_BASE_URL, "Haiku",
                   IF TruthyStr(haiku_model) THEN haiku_model ELSE ZAI_HAIKU_MODEL, "zai")
  ELSE IF current_haiku_provider = "copilot" /\ e.ENABLE_COPILOT
  THEN RouteResult(None, GITHUB_COPILOT_BASE_URL, "Haiku", haiku_model, "copilot")
  ELSE RouteResult(None, None, "Unknown", ANTHROPIC_HAIKU_MODEL, "anthropic")

\* get_provider_config on the values it reads: the three providers (lines 76-78),
\* the three models (lines 81-84) and the second read of the haiku provider (line 178)
get_provider_config_at(model, sp, hp, op, sm, hm, om, hp2, e) ==
  LET tier == DetectTier(model) IN
  IF tier = "Sonnet" THEN RouteSonnet(model, sp, sm, e)
  ELSE IF tier = "Haiku" THEN RouteHaiku(model, hp, hm, e)
  ELSE IF tier = "Opus" THEN RouteOpus(model, op, om, e)
  ELSE RouteUnknown(model, hp2, hm, e)

\* get_provider_config when RuntimeConfig does not change during the call
get_provider_config(model, cfg, e) ==
  get_provider_config_at(model, cfg.sonnet_provider, cfg.haiku_provider,
                         cfg.opus_provider, cfg.sonnet_model, cfg.haiku_model,
                         cfg.opus_model, cfg.haiku_provider, e)

(***************************************************************************)
(* Bounds of the model.                                                    *)
(***************************************************************************)
\* concurrent callers of get_oauth_token
MaxCallers == 2

\* POSTs to the token endpoint in one behaviour
MaxPosts == 2

\* advances of the clock in one behaviour
MaxTicks == 2

\* how many calls of record_usage are followed
MaxRecords == 102

\* how many requests proxy_request answers
MaxRequests == 1

\* how many requests POST /config receives
MaxConfigPosts == 2

\* how many messages a body handed to the sanitizer holds
MaxMessages == 2

\* the handlers that may be in flight together
MaxProcs == 2

(***************************************************************************)
(* core/oauth.py: get_oauth_token.                                         *)
(***************************************************************************)
\* line 40: buffer_ms = 5 * 60 * 1000
buffer_ms == 300000

\* line 19
OAUTH_REFRESH_COOLDOWN == 60

\* line 88: new_token_data.get("expires_in", 3600)
DEFAULT_EXPIRES_IN == 3600

\* the credentials file: it may not exist ("absent") or not parse ("corrupt");
\* otherwise ("ok") the three fields are those of its claudeAiOauth object.
\* The file belongs to another tool: scopes stands for the other keys of the
\* claudeAiOauth object and mcpOAuth for the other keys of the document.
CredsFile(file, accessToken, refreshToken, expiresAt) ==
  [file |-> file, accessToken |-> accessToken, refreshToken |-> refreshToken,
   expiresAt |-> expiresAt,
   scopes |-> IF file = "ok" THEN "user:inference" ELSE None,
   mcpOAuth |-> IF file = "ok" THEN "other-tool" ELSE None]

NoCredsFile(file) == CredsFile(file, None, None, 0)

\* int(datetime.now().timestamp() * 1000) and int(datetime.now().timestamp())
current_time_ms_of(t) == t

current_time_sec_of(t) == t \div 1000

\* the check of line 61 taken as never true: the token is refreshed again
AlreadyRefreshed_Never(expires_at, current_time_ms) == FALSE

\* line 42: expires_at and (current_time_ms + buffer_ms) >= expires_at
TokenExpiring(expires_at, current_time_ms) ==
  expires_at # 0 /\ (current_time_ms + buffer_ms) >= expires_at

\* line 61: not expires_at or (current_time_ms + buffer_ms) < expires_at
AlreadyRefreshed(expires_at, current_time_ms) ==
  expires_at = 0 \/ (current_time_ms + buffer_ms) < expires_at

\* line 66: current_time_sec - _last_oauth_refresh_failure < _OAUTH_REFRESH_COOLDOWN
InCooldown(current_time_sec, last_failure) ==
  current_time_sec - last_failure < OAUTH_REFRESH_COOLDOWN

\* the document written anew from the three fields alone
RefreshedCreds_Rebuilt(oauth_data, current_time_ms, new_token_data) ==
  [file |-> "ok",
   accessToken |-> Get(new_token_data, "access_token", None),
   expiresAt |-> current_time_ms +
        (Get(new_token_data, "expires_in", DEFAULT_EXPIRES_IN) * 1000),
   refreshToken |-> IF "refresh_token" \in DOMAIN new_token_data
                    THEN new_token_data.refresh_token ELSE oauth_data.refreshToken,
   scopes |-> None, mcpOAuth |-> None]

\* lines 51-53 and 87-95: the document read under the lock, with the
\* claudeAiOauth object after a 200 from the token endpoint, as it is written
RefreshedCreds(oauth_data, current_time_ms, new_token_data) ==
  [oauth_data EXCEPT
     !.accessToken = Get(new_token_data, "access_token", None),
     !.expiresAt = current_time_ms +
        (Get(new_token_data, "expires_in", DEFAULT_EXPIRES_IN) * 1000),
     !.refreshToken = IF "refresh_token" \in DOMAIN new_token_data
                      THEN new_token_data.refresh_token ELSE @]

\* the lock is free
NoHolder == 0

\* A caller of get_oauth_token. Of its locals only current_time_ms is kept, and
\* only while the POST is in flight: access_token, refresh_token, expires_at and
\* current_time_ms of the first read are assigned again at lines 54-59 before
\* anything reads them, and under the lock oauth_data is the file's content.
IdleCaller ==
  [pc |-> "idle", current_time_ms |-> 0, ret |-> None, via |-> "none"]

\* the call has returned: its result, and the return statement it left by (history)
Returned(value, via) ==
  [IdleCaller EXCEPT !.pc = "done", !.ret = value, !.via = via]

\* lines 25-47 and 110-114: the first read of the file, outside the lock
OAuthEnter(t) ==
  /\ th[t].pc = "idle"
  /\ th' = [th EXCEPT ![t] =
       IF creds.file = "absent" THEN Returned(None, "no_file")
       ELSE IF creds.file = "corrupt" THEN Returned(None, "unreadable")
       ELSE IF TokenExpiring(creds.expiresAt, current_time_ms_of(now))
            THEN IF creds.refreshToken = None
                 THEN Returned(None, "no_refresh_token")
                 ELSE [@ EXCEPT !.pc = "wait_lock"]
            ELSE Returned(creds.accessToken, "valid")]
  /\ UNCHANGED <<now, creds, oauth_refresh_lock, last_oauth_refresh_failure, posts, ticks>>

\* lines 49-82: the lock is taken, the file read again, and the POST sent unless
\* the token is fresh or a refresh failed less than the cooldown ago
OAuthLocked(t) ==
  /\ th[t].pc = "wait_lock"
  /\ oauth_refresh_lock = NoHolder
  /\ IF AlreadyRefreshed(creds.expiresAt, current_time_ms_of(now))
     THEN /\ th' = [th EXCEPT ![t] = Returned(creds.accessToken, "already_refreshed")]
          /\ UNCHANGED <<oauth_refresh_lock, posts>>
     ELSE IF InCooldown(current_time_sec_of(now), last_oauth_refresh_failure)
     THEN /\ th' = [th EXCEPT ![t] = Returned(creds.accessToken, "cooldown")]
          /\ UNCHANGED <<oauth_refresh_lock, posts>>
     ELSE /\ Len(posts) < MaxPosts
          /\ th' = [th EXCEPT ![t] = [@ EXCEPT !.pc = "posting",
                                               !.current_time_ms = current_time_ms_of(now)]]
          /\ oauth_refresh_lock' = t
          /\ posts' = Append(posts, [by |-> t, at |-> now, status |-> "pending",
                                     expires_at |-> 0, access_token |-> None])
  /\ UNCHANGED <<now, creds, last_oauth_refresh_failure, ticks>>

\* lines 84-99: the token endpoint answers 200
OAuthRefreshed(t, new_token_data) ==
  /\ th[t].pc = "posting"
  /\ LET oauth_data == RefreshedCreds(creds, th[t].current_time_ms, new_token_data)
     IN /\ creds' = oauth_data
        /\ th' = [th EXCEPT ![t] = Returned(oauth_data.accessToken, "refreshed")]
        /\ posts' = [posts EXCEPT ![Len(posts)] =
                       [@ EXCEPT !.status = "ok", !.expires_at = oauth_data.expiresAt,
                                 !.access_token = oauth_data.accessToken]]
  /\ last_oauth_refresh_failure' = 0
  /\ oauth_refresh_lock' = NoHolder
  /\ UNCHANGED <<now, ticks>>

\* the failure is recorded and the lock is kept
OAuthRefreshFailed_KeepsLock(t) ==
  /\ th[t].pc = "posting"
  /\ last_oauth_refresh_failure' = current_time_sec_of(now)
  /\ th' = [th EXCEPT ![t] = Returned(None, "refresh_failed")]
  /\ posts' = [posts EXCEPT ![Len(posts)] = [@ EXCEPT !.status = "failed"]]
  /\ UNCHANGED <<now, creds, ticks, oauth_refresh_lock>>

\* lines 100-108: another status, or httpx.post raises
OAuthRefreshFailed(t) ==
  /\ th[t].pc = "posting"
  /\ last_oauth_refresh_failure' = current_time_sec_of(now)
  /\ th' = [th EXCEPT ![t] = Returned(None, "refresh_failed")]
  /\ posts' = [posts EXCEPT ![Len(posts)] = [@ EXCEPT !.status = "failed"]]
  /\ oauth_refresh_lock' = NoHolder
  /\ UNCHANGED <<now, creds, ticks>>

\* the caller has its answer; it may call again
OAuthReturn(t) ==
  /\ th[t].pc = "done"
  /\ th' = [th EXCEPT ![t] = IdleCaller]
  /\ UNCHANGED <<now, creds, oauth_refresh_lock, last_oauth_refresh_failure, posts, ticks>>

\* time passes
Tick(d) ==
  /\ ticks < MaxTicks
  /\ now' = now + d
  /\ ticks' = ticks + 1
  /\ UNCHANGED <<creds, oauth_refresh_lock, last_oauth_refresh_failure, th, posts>>

(***************************************************************************)
(* services/token_tracker.py: TokenUsageTracker.                           *)
(***************************************************************************)
\* a JSON number and a JSON null, as a token count arrives from an upstream
JInt(n) == [t |-> "int", v |-> n]

JNull == [t |-> "null", v |-> 0]

\* int + x is defined
IsNumber(j) == j.t = "int"

\* lines 37-45, and reset_stats
EmptyData ==
  [total_requests |-> 0, total_input_tokens |-> 0, total_output_tokens |-> 0,
   by_provider |-> EmptyObject, by_model |-> EmptyObject, by_tier |-> EmptyObject,
   history |-> <<>>]

ZeroStats == [requests |-> 0, input_tokens |-> 0, output_tokens |-> 0]

\* lines 82-90, 93-101, 104-112: the entry of one provider, model or tier
AddStats(by, key, input_tokens, output_tokens) ==
  LET old == Get(by, key, ZeroStats)
  IN (key :> [requests |-> old.requests + 1,
              input_tokens |-> old.input_tokens + input_tokens,
              output_tokens |-> old.output_tokens + output_tokens]) @@ by

\* line 123: the length history is cut to
HistoryCap == 100

\* pop() in place of pop(0): the newest record is dropped
EvictNewest(history) ==
  IF Len(history) > HistoryCap THEN SubSeq(history, 1, Len(history) - 1) ELSE history

\* lines 123-124
EvictOldest(history) ==
  IF Len(history) > HistoryCap THEN Tail(history) ELSE history

\* lines 115-122
UsageRecord(timestamp, input_tokens, output_tokens, provider, model, tier) ==
  [timestamp |-> timestamp, input_tokens |-> input_tokens, output_tokens |-> output_tokens,
   provider |-> provider, model |-> model, tier |-> tier]

\* lines 47-53
SavedFile(d) == [state |-> "ok", content |-> d]

\* lines 73-126. The counters are updated one statement after the other: a token
\* count that is not a number raises TypeError at line 78 or 79, after the
\* statements before it have run and before anything is saved.
record_usage(d, file, input_tokens, output_tokens, provider, model, tier, timestamp) ==
  LET d1 == [d EXCEPT !.total_requests = @ + 1] IN
  IF ~IsNumber(input_tokens)
  THEN [data |-> d1, file |-> file, raised |-> TRUE]
  ELSE
  LET d2 == [d1 EXCEPT !.total_input_tokens = @ + input_tokens.v] IN
  IF ~IsNumber(output_tokens)
  THEN [data |-> d2, file |-> file, raised |-> TRUE]
  ELSE
  LET d3 == [d2 EXCEPT
               !.total_output_tokens = @ + output_tokens.v,
               !.by_provider = AddStats(@, provider, input_tokens.v, output_tokens.v),
               !.by_model = AddStats(@, model, input_tokens.v, output_tokens.v),
               !.by_tier = AddStats(@, tier, input_tokens.v, output_tokens.v),
               !.history = EvictOldest(Append(@, UsageRecord(timestamp, input_tokens.v,
                                          output_tokens.v, provider, model, tier)))]
  IN [data |-> d3, file |-> SavedFile(d3), raised |-> FALSE]

\* one call of record_usage by a client of the tracker
RecordUsage(input_tokens, output_tokens, provider, model, tier) ==
  /\ Len(recorded) < MaxRecords
  /\ LET r == record_usage(data, storage_file, input_tokens, output_tokens,
                           provider, model, tier, now)
     IN /\ data' = r.data
        /\ storage_file' = r.file
  /\ recorded' = Append(recorded, UsageRecord(now, input_tokens, output_tokens,
                                               provider, model, tier))

\* the most calls of record_usage in the life of one tracker
MaxUsageCalls == 3

\* nothing is written
save_data_Skipped(d, file, outcome) == file

\* lines 47-53: what open() and json.dump() can do to the file. open(..., 'w')
\* fails and leaves the file alone, or truncates it; a write that fails after
\* that leaves a truncated file. IOError is caught and reported by print.
WriteOutcomes == {"written", "open_failed", "dump_failed"}

\* lines 47-53
save_data(d, file, outcome) ==
  CASE outcome = "written" -> SavedFile(d)
    [] outcome = "open_failed" -> file
    [] outcome = "dump_failed" -> [state |-> "partial", content |-> EmptyData]

\* how open(..., 'r') decodes the bytes of the file: the encoding of the locale
\* is UTF-8, which rejects some bytes, or a single-byte encoding, which accepts
\* every byte
Decodings == {"utf_8", "single_byte"}

\* lines 29-45. The file holds a usage document ("ok"), text json.load rejects
\* ("unparseable", "partial"), JSON of another shape ("other_json"), bytes that
\* are not UTF-8 ("undecodable"); it cannot be opened ("unreadable"), or it is
\* not there ("absent"). JSONDecodeError and IOError are caught;
\* UnicodeDecodeError is neither.
load_data(file, decoding) ==
  CASE file.state \in {"ok", "other_json"} -> [raised |-> FALSE, data |-> file.content]
    [] file.state \in {"absent", "unparseable", "partial", "unreadable"} ->
         [raised |-> FALSE, data |-> EmptyData]
    [] file.state = "undecodable" ->
         IF decoding = "utf_8" THEN [raised |-> TRUE, data |-> EmptyData]
         ELSE [raised |-> FALSE, data |-> EmptyData]

\* the document has the keys record_usage reads
IsUsageDocument(d) == DOMAIN d = DOMAIN EmptyData

\* the tracker before its construction. last_op, outcome, raised and the
\* *_before fields are history of the last call; constructed_on is the file the
\* tracker was constructed on; calls, numeric and was_reset are history of the
\* calls since; reloaded is what a second tracker constructed on the file
\* holds.
IdleTracker ==
  [pc |-> "new", last_op |-> None, outcome |-> None, raised |-> FALSE,
   data_before |-> EmptyData, file_before |-> EmptyObject, constructed_on |-> EmptyObject,
   calls |-> 0, numeric |-> TRUE, any_raised |-> FALSE, was_reset |-> FALSE,
   reloaded |-> EmptyObject]

\* lines 18-27: TokenUsageTracker(storage_file)
TrackerConstruct(decoding) ==
  /\ tk.pc = "new"
  /\ \E loaded \in {load_data(storage_file, decoding)} :
       /\ data' = IF loaded.raised THEN data ELSE loaded.data
       /\ tk' = [tk EXCEPT !.pc = IF loaded.raised THEN "failed" ELSE "ready",
                           !.last_op = "construct", !.raised = loaded.raised,
                           !.data_before = data, !.file_before = storage_file,
                           !.constructed_on = storage_file]
  /\ UNCHANGED <<storage_file, recorded>>

\* lines 55-126, the save of line 126 included. A document without the keys
\* raises KeyError at line 77, before anything is changed.
TrackerRecordUsage(input_tokens, output_tokens, provider, model, tier, outcome) ==
  /\ tk.pc = "ready" /\ tk.calls < MaxUsageCalls
  /\ \E r \in {IF IsUsageDocument(data)
                THEN record_usage(data, storage_file, input_tokens, output_tokens,
                                  provider, model, tier, now)
                ELSE [data |-> data, file |-> storage_file, raised |-> TRUE]} :
       /\ data' = r.data
       /\ storage_file' = IF r.raised THEN storage_file
                          ELSE save_data(r.data, storage_file, outcome)
       /\ tk' = [tk EXCEPT !.last_op = "record_usage",
                           !.outcome = IF r.raised THEN None ELSE outcome,
                           !.raised = r.raised,
                           !.data_before = data, !.file_before = storage_file,
                           !.calls = @ + 1,
                           !.numeric = @ /\ IsNumber(input_tokens) /\ IsNumber(output_tokens),
                           !.any_raised = @ \/ r.raised,
                           !.reloaded = EmptyObject]
  /\ UNCHANGED recorded

\* lines 138-150
TrackerResetStats(outcome) ==
  /\ tk.pc = "ready"
  /\ data' = EmptyData
  /\ storage_file' = save_data(EmptyData, storage_file, outcome)
  /\ tk' = [tk EXCEPT !.last_op = "reset_stats", !.outcome = outcome, !.raised = FALSE,
                      !.data_before = data, !.file_before = storage_file,
                      !.was_reset = TRUE, !.reloaded = EmptyObject]
  /\ UNCHANGED recorded

\* lines 18-45: a second TokenUsageTracker is constructed on the same file
TrackerReload(decoding) ==
  /\ tk.pc = "ready" /\ tk.last_op # "reload"
  /\ tk' = [tk EXCEPT !.last_op = "reload", !.outcome = None, !.raised = FALSE,
                      !.reloaded = load_data(storage_file, decoding)]
  /\ UNCHANGED <<data, storage_file, recorded>>

(***************************************************************************)
(* core/sanitize.py.                                                       *)
(***************************************************************************)
\* lines 45-49
is_reasoning_model(model, provider_type) ==
  IF provider_type \in {"antigravity", "custom"} THEN FALSE
  ELSE \E m \in {W_sonnet_3_7, W_sonnet_4_5, W_claude_3_7, W_opus_4_5} :
         Contains(Lower(model), m)

\* "thinking"
W_thinking ==
  <<"t", "h", "i", "n", "k", "i", "n", "g">>
\* "effort"
W_effort ==
  <<"e", "f", "f", "o", "r", "t">>

\* str.split(sep) for a separator of one character
RECURSIVE SplitOn(_, _)
SplitOn(s, sep) ==
  IF \A i \in DOMAIN s : s[i] # sep THEN <<s>>
  ELSE LET k == CHOOSE i \in DOMAIN s : s[i] = sep /\ \A j \in 1..(i - 1) : s[j] # sep
       IN <<SubSeq(s, 1, k - 1)>> \o SplitOn(SubSeq(s, k + 1, Len(s)), sep)

\* str.strip(), the blank being the only whitespace of a header value
RECURSIVE Strip(_)
Strip(s) ==
  IF s = <<>> THEN s
  ELSE IF Head(s) = " " THEN Strip(Tail(s))
  ELSE IF s[Len(s)] = " " THEN Strip(SubSeq(s, 1, Len(s) - 1))
  ELSE s

\* sep.join(parts)
RECURSIVE JoinWith(_, _)
JoinWith(parts, sep) ==
  IF parts = <<>> THEN <<>>
  ELSE IF Len(parts) = 1 THEN parts[1]
  ELSE parts[1] \o <<sep>> \o JoinWith(Tail(parts), sep)

\* line 57
BetaParts(beta_header) ==
  [i \in DOMAIN SplitOn(beta_header, ",") |-> Strip(SplitOn(beta_header, ",")[i])]

\* lines 61-62
ReasoningFeature(part) ==
  Contains(Lower(part), W_thinking) \/ Contains(Lower(part), W_effort)

\* lines 52-66
filter_beta_header(beta_header, model, provider_type) ==
  IF beta_header = <<>> THEN <<>>
  ELSE IF ~is_reasoning_model(model, provider_type)
  THEN JoinWith(SelectSeq(BetaParts(beta_header), LAMBDA part : ~ReasoningFeature(part)), ",")
  ELSE JoinWith(BetaParts(beta_header), ",")

\* lines 76-80
ALLOWED_TOP_KEYS ==
  {"model", "messages", "system", "tools", "tool_choice", "max_tokens", "stream",
   "temperature", "top_p", "top_k", "stop_sequences"}

\* line 92
ALLOWED_TOOL_KEYS == {"name", "description", "input_schema", "type"}

\* the role of a message is not on the list
ALLOWED_MSG_KEYS_ContentOnly == {"content"}

\* line 98
ALLOWED_MSG_KEYS == {"role", "content"}

\* the lists of the block types without the key 'type'
ALLOWED_BLOCK_KEYS_NoType(btype) ==
  CASE btype = "text" -> {"text"}
    [] btype = "tool_use" -> {"id", "name", "input"}
    [] btype = "tool_result" -> {"tool_use_id", "content", "is_error"}
    [] btype = "image" -> {"source"}
    [] OTHER -> {"type"}

\* lines 99-104 and the default of line 117
ALLOWED_BLOCK_KEYS(btype) ==
  CASE btype = "text" -> {"type", "text"}
    [] btype = "tool_use" -> {"type", "id", "name", "input"}
    [] btype = "tool_result" -> {"type", "tool_use_id", "content", "is_error"}
    [] btype = "image" -> {"type", "source"}
    [] OTHER -> {"type"}

\* lines 123-131 and 167-175: a tool input that arrived as a string. The string
\* is known by what json.loads makes of it after strip(): "blank", "object" (a
\* JSON object), "scalar" (JSON, not an object) or "invalid".
ParsedToolInput(raw) ==
  IF raw = "object" THEN [dict |-> "parsed"] ELSE [dict |-> "empty"]

\* lines 164-177
fix_tool_input(obj) ==
  IF Get(obj, "type", None) = "tool_use" /\ IsStrAt(obj, "input")
  THEN [obj EXCEPT !.input = ParsedToolInput(@.str)]
  ELSE obj

\* lines 135-140: a sub-block that is not an object is left alone
SanitizeSub(sub) ==
  IF IsDict(sub) THEN KeepKeys(sub, ALLOWED_BLOCK_KEYS(Get(sub, "type", "")))
  ELSE sub

\* lines 115-140
SanitizeBlock(block) ==
  LET btype == Get(block, "type", "")
      kept == KeepKeys(block, ALLOWED_BLOCK_KEYS(btype))
      fixed == IF btype = "tool_use" THEN fix_tool_input(kept) ELSE kept
  IN IF btype = "tool_result" /\ IsListAt(fixed, "content")
     THEN [fixed EXCEPT !.content =
             JList([i \in DOMAIN @.list |-> SanitizeSub(@.list[i])])]
     ELSE fixed

\* lines 107-140
SanitizeMessage(msg) ==
  LET kept == KeepKeys(msg, ALLOWED_MSG_KEYS)
  IN IF IsListAt(kept, "content")
     THEN [kept EXCEPT !.content =
             JList([i \in DOMAIN @.list |-> SanitizeBlock(@.list[i])])]
     ELSE kept

\* lines 69-140
sanitize_for_custom_provider(body_json) ==
  LET top == KeepKeys(body_json, ALLOWED_TOP_KEYS)
      sys == IF IsListAt(top, "system")
             THEN [top EXCEPT !.system =
                     JList([i \in DOMAIN @.list |-> KeepKeys(@.list[i], {"type", "text"})])]
             ELSE top
      tls == IF IsListAt(sys, "tools")
             THEN [sys EXCEPT !.tools =
                     JList([i \in DOMAIN @.list |-> KeepKeys(@.list[i], ALLOWED_TOOL_KEYS)])]
             ELSE sys
  IN IF "messages" \in DOMAIN tls
     THEN [tls EXCEPT !.messages = [i \in DOMAIN @ |-> SanitizeMessage(@[i])]]
     ELSE tls

\* lines 143-161: the body is sanitized in place and serialized; the body is
\* kept here as the JSON value the bytes stand for
sanitize_for_custom(body_json) == sanitize_for_custom_provider(body_json)

\* lines 180-218, on the content blocks the events of the stream carry
fix_streaming_tool_inputs(blocks) ==
  [i \in DOMAIN blocks |-> fix_tool_input(blocks[i])]

(***************************************************************************)
(* core/middleware.py: APIKeyMiddleware.                                   *)
(***************************************************************************)
\* "bearer "
W_bearer ==
  <<"b", "e", "a", "r", "e", "r", " ">>

\* auth.split(" ", 1)[1], for an auth that holds a space
AfterFirstSpace(auth) ==
  LET k == CHOOSE i \in 1..Len(auth) :
             auth[i] = " " /\ \A j \in 1..(i - 1) : auth[j] # " "
  IN SubSeq(auth, k + 1, Len(auth))

\* every path is exempt
ExemptPath_All(path) == TRUE

\* line 15
ExemptPath(path) == path \in {"/health", "/favicon.ico"}

\* the x-api-key header is looked at before the query parameter
client_key_of_HeaderFirst(request) ==
  IF "x-api-key" \in DOMAIN request.headers
  THEN Str(request.headers["x-api-key"])
  ELSE IF "key" \in DOMAIN request.query_params
  THEN Str(request.query_params["key"])
  ELSE IF "authorization" \in DOMAIN request.headers
  THEN LET auth == request.headers["authorization"]
       IN IF StartsWith(Lower(auth), W_bearer)
          THEN Str(AfterFirstSpace(auth))
          ELSE Str(auth)
  ELSE IF "x-proxy-key" \in DOMAIN request.headers
  THEN Str(request.headers["x-proxy-key"])
  ELSE Unset

\* lines 23-43
client_key_of(request) ==
  IF "key" \in DOMAIN request.query_params
  THEN Str(request.query_params["key"])
  ELSE IF "x-api-key" \in DOMAIN request.headers
  THEN Str(request.headers["x-api-key"])
  ELSE IF "authorization" \in DOMAIN request.headers
  THEN LET auth == request.headers["authorization"]
       IN IF StartsWith(Lower(auth), W_bearer)
          THEN Str(AfterFirstSpace(auth))
          ELSE Str(auth)
  ELSE IF "x-proxy-key" \in DOMAIN request.headers
  THEN Str(request.headers["x-proxy-key"])
  ELSE Unset

IdleMiddleware ==
  [pc |-> "idle", request |-> <<>>, status_code |-> 0, error_type |-> None,
   handler_calls |-> 0]

\* lines 13-57, up to the call of call_next or the 401
Dispatch(request) ==
  /\ mw.pc = "idle"
  /\ mw' = IF \/ ExemptPath(request.path)
              \/ ~TruthyOpt(env.PROXY_API_KEY)
              \/ client_key_of(request) = env.PROXY_API_KEY
           THEN [mw EXCEPT !.pc = "call_next", !.request = request]
           ELSE [mw EXCEPT !.pc = "done", !.request = request, !.status_code = 401,
                           !.error_type = "authentication_error"]

\* call_next(request): the endpoint handler of the path runs and answers
CallNext ==
  /\ mw.pc = "call_next"
  /\ mw' = [mw EXCEPT !.pc = "done", !.status_code = 200, !.handler_calls = @ + 1]

(***************************************************************************)
(* api/endpoints.py: proxy_request, and core/providers.py: the adapters.   *)
(***************************************************************************)
\* only thinking blocks are removed
StrippedTypes_ThinkingOnly == {"thinking"}

\* endpoints.py line 74
StrippedTypes == {"thinking", "redacted_thinking"}

\* endpoints.py lines 71-75
StripMessage(message) ==
  IF IsListAt(message, "content")
  THEN [message EXCEPT !.content =
          JList(SelectSeq(@.list, LAMBDA block : Get(block, "type", None) \notin StrippedTypes))]
  ELSE message

\* endpoints.py lines 68-75
StripThinkingBlocks(body_json) ==
  IF "messages" \in DOMAIN body_json
  THEN [body_json EXCEPT !.messages = [i \in DOMAIN @ |-> StripMessage(@[i])]]
  ELSE body_json

\* endpoints.py lines 81-87
StripReasoning(body_json, translated_model, provider_type) ==
  IF ~is_reasoning_model(translated_model, provider_type)
  THEN DelKey(DelKey(body_json, "thinking"), "effort")
  ELSE body_json

\* endpoints.py lines 90-91
StripContextSuffix(translated_model) ==
  IF Contains(translated_model, W_1m) THEN RemoveAll(translated_model, W_1m)
  ELSE translated_model

\* the request is never turned away
Misconfigured_Never(route) == FALSE

\* endpoints.py line 53
Misconfigured(route) == route.provider_type = "misconfigured"

\* endpoints.py lines 100-136: the backend the request is sent to; "zai" and
\* "anthropic" are the two POSTs proxy_request makes itself
Backend(route) ==
  IF route.provider_type \in {"antigravity", "copilot", "openrouter", "custom"}
  THEN route.provider_type
  ELSE IF Truthy(route.api_key) /\ Truthy(route.base_url)
          /\ route.provider_type \in {"glm", "zai"}
  THEN "zai"
  ELSE "anthropic"

\* endpoints.py line 213
ProviderName(provider_type, use_real_anthropic) ==
  IF provider_type \in {"glm", "zai"} THEN "zai"
  ELSE IF use_real_anthropic THEN "anthropic"
  ELSE provider_type

\* endpoints.py lines 203-207
FilterResponseContent(content) ==
  SelectSeq(content, LAMBDA block : Get(block, "type", None) \notin {"thinking", "redacted_thinking"})

\* core/oauth.py lines 22-114 as one uninterrupted call: proxy_request does not
\* yield while get_oauth_token runs. answer is what the token endpoint replies
\* if it is asked.
get_oauth_token(c, last_failure, t, answer) ==
  LET keep(ret) == [ret |-> ret, creds |-> c, last_failure |-> last_failure, posted |-> FALSE]
  IN IF c.file # "ok" THEN keep(None)
     ELSE IF ~TokenExpiring(c.expiresAt, current_time_ms_of(t)) THEN keep(c.accessToken)
     ELSE IF c.refreshToken = None THEN keep(None)
     ELSE IF AlreadyRefreshed(c.expiresAt, current_time_ms_of(t)) THEN keep(c.accessToken)
     ELSE IF InCooldown(current_time_sec_of(t), last_failure) THEN keep(c.accessToken)
     ELSE IF answer.status = "ok"
     THEN LET oauth_data == RefreshedCreds(c, current_time_ms_of(t), answer.data)
          IN [ret |-> oauth_data.accessToken, creds |-> oauth_data, last_failure |-> 0,
              posted |-> TRUE]
     ELSE [ret |-> None, creds |-> c, last_failure |-> current_time_sec_of(t),
           posted |-> TRUE]

\* the handler between two requests. reached, calls, token_calls, upstream and
\* history_before are history: whether proxy_request was entered, the backends
\* contacted, how often get_oauth_token was called, what the backend answered,
\* and the history of the tracker when the request arrived.
IdleProxy ==
  [pc |-> "idle", reached |-> FALSE, endpoint |-> None, body |-> EmptyObject, route |-> EmptyObject,
   translated_model |-> <<>>, backend |-> None, use_real_anthropic |-> FALSE,
   body_json |-> EmptyObject, stream |-> FALSE, oauth_token |-> None,
   calls |-> <<>>, token_calls |-> 0, upstream |-> EmptyObject, history_before |-> <<>>,
   headers |-> EmptyObject, target_headers |-> EmptyObject,
   status_code |-> 0, kind |-> None, error_type |-> None, content |-> <<>>]

\* a response is returned to the client
Respond(p, status_code, kind, error_type, content) ==
  [p EXCEPT !.pc = "done", !.status_code = status_code, !.kind = kind,
            !.error_type = error_type, !.content = content]

\* body_json.get("stream", False), as a truth value
StreamFlag(body_json) == Get(body_json, "stream", FALSE)

\* endpoints.py lines 68-94 and providers.py line 304: the body that is sent
OutboundBody(body_json, route, translated_model, backend) ==
  LET stripped == StripReasoning(StripThinkingBlocks(body_json), route.translated_model,
                                 route.provider_type)
      named == SetKey(stripped, "model", translated_model)
  IN IF backend = "custom" THEN sanitize_for_custom_provider(named) ELSE named

\* the anthropic-version and anthropic-beta headers of the POST to the backend:
\* endpoints.py lines 122-129 and 150-157, providers.py lines 28-52, 124-128,
\* 205-209, 295-299. The bridge to Antigravity sends a fixed version; it and the
\* native path leave out a beta header that is filtered to nothing.
TargetHeaders(original_headers, model, backend) ==
  LET has_beta == "anthropic-beta" \in DOMAIN original_headers
      filtered_beta == filter_beta_header(original_headers["anthropic-beta"], model, backend)
      version == IF backend = "antigravity"
                 THEN SetKey(EmptyObject, "anthropic-version", "2023-06-01")
                 ELSE KeepKeys(original_headers, {"anthropic-version"})
  IN IF ~has_beta THEN version
     ELSE IF backend = "zai"
     THEN SetKey(version, "anthropic-beta", original_headers["anthropic-beta"])
     ELSE IF backend \in {"antigravity", "anthropic"} /\ filtered_beta = <<>>
     THEN version
     ELSE SetKey(version, "anthropic-beta", filtered_beta)

\* the client's Authorization header is never passed on
AuthorizationHeader_Drops(target_headers, original_headers, oauth_token) ==
  IF Truthy(oauth_token)
  THEN SetKey(target_headers, "Authorization", "Bearer " \o oauth_token)
  ELSE target_headers

\* endpoints.py lines 140-148: the Authorization header of the POST to
\* Anthropic. request.headers holds the names of the headers in lower case.
AuthorizationHeader(target_headers, original_headers, oauth_token) ==
  IF Truthy(oauth_token)
  THEN SetKey(target_headers, "Authorization", "Bearer " \o oauth_token)
  ELSE IF "authorization" \in DOMAIN original_headers
  THEN SetKey(target_headers, "Authorization", original_headers["authorization"])
  ELSE target_headers

\* a request as it arrives at proxy_request
Arrived(request, endpoint) ==
  [IdleProxy EXCEPT !.endpoint = endpoint, !.body = request.body,
                    !.headers = request.headers,
                    !.history_before = data.history]

\* proxy_request is entered
Entered(request, endpoint) == [Arrived(request, endpoint) EXCEPT !.reached = TRUE]

\* json.loads(body) if body else {}, for a body that parses to an object
ParsedBody(body) == IF body.kind = "empty" THEN EmptyObject ELSE body.json

\* the record of a POST to the token endpoint and its outcome
TokenPost(by, at, answer, tok) ==
  [by |-> by, at |-> at, status |-> IF answer.status = "ok" THEN "ok" ELSE "failed",
   expires_at |-> IF answer.status = "ok" THEN tok.creds.expiresAt ELSE 0,
   access_token |-> tok.ret]

\* endpoints.py lines 43-159 and the adapter up to its POST (providers.py lines
\* 26-54, 117-133, 196-214, 280-305)
proxy_request(request, endpoint, answer) ==
  IF request.body.kind \in {"invalid", "nonobject"}
  THEN /\ px' = Respond(Entered(request, endpoint), 500, "json", "internal_error", <<>>)
       /\ UNCHANGED <<creds, last_oauth_refresh_failure, posts>>
  ELSE
  \E route \in {get_provider_config(Get(ParsedBody(request.body), "model",
                                        DEFAULT_REQUEST_MODEL), runtime_config, env)} :
    IF Misconfigured(route)
    THEN /\ px' = Respond([Entered(request, endpoint) EXCEPT !.route = route], 503, "json",
                          "configuration_error", <<>>)
         /\ UNCHANGED <<creds, last_oauth_refresh_failure, posts>>
    ELSE
    \E backend \in {Backend(route)} :
    \E translated_model \in {StripContextSuffix(route.translated_model)} :
    \E body_json \in {OutboundBody(ParsedBody(request.body), route, translated_model,
                                   backend)} :
    \E tok \in {IF backend = "anthropic"
                THEN get_oauth_token(creds, last_oauth_refresh_failure, now, answer)
                ELSE [ret |-> None, creds |-> creds,
                      last_failure |-> last_oauth_refresh_failure, posted |-> FALSE]} :
      /\ px' = [Entered(request, endpoint) EXCEPT
                  !.pc = "upstream", !.route = route,
                  !.translated_model = translated_model,
                  !.backend = backend,
                  !.use_real_anthropic = (backend = "anthropic"),
                  !.body_json = body_json,
                  !.target_headers =
                    IF backend = "anthropic"
                    THEN AuthorizationHeader(
                           TargetHeaders(request.headers, translated_model, backend),
                           request.headers, tok.ret)
                    ELSE TargetHeaders(request.headers, translated_model, backend),
                  !.stream = StreamFlag(body_json),
                  !.oauth_token = tok.ret,
                  !.token_calls = IF backend = "anthropic" THEN 1 ELSE 0,
                  !.calls = <<backend>>]
      /\ creds' = tok.creds
      /\ last_oauth_refresh_failure' = tok.last_failure
      /\ posts' = IF tok.posted THEN Append(posts, TokenPost(0, now, answer, tok))
                  ELSE posts

\* a request may arrive: the handler is free and the run is not over
MayArrive == px.pc = "idle" /\ served < MaxRequests

\* endpoints.py lines 241-242
MessagesEndpoint(request, answer) ==
  /\ MayArrive
  /\ served' = served + 1
  /\ proxy_request(request, "messages", answer)
  /\ UNCHANGED <<data, storage_file, recorded>>

\* endpoints.py lines 245-259
CountTokensEndpoint(request, answer) ==
  /\ MayArrive
  /\ served' = served + 1
  /\ IF request.body.kind \in {"invalid", "nonobject"}
     THEN /\ px' = Respond(Arrived(request, "messages/count_tokens"), 500, "json",
                           "internal_error", <<>>)
          /\ UNCHANGED <<creds, last_oauth_refresh_failure, posts>>
     ELSE
     \E route \in {get_provider_config(Get(ParsedBody(request.body), "model",
                                           DEFAULT_REQUEST_MODEL), runtime_config, env)} :
       IF ~Truthy(route.api_key) /\ ~Truthy(route.base_url)
       THEN proxy_request(request, "messages/count_tokens", answer)
       ELSE /\ px' = Respond([Arrived(request, "messages/count_tokens") EXCEPT
                                !.route = route], 501, "json", "not_supported", <<>>)
            /\ UNCHANGED <<creds, last_oauth_refresh_failure, posts>>
  /\ UNCHANGED <<data, storage_file, recorded>>

\* the response has been sent; the handler takes the next request
ProxyDone ==
  /\ px.pc = "done"
  /\ px' = IdleProxy
  /\ UNCHANGED <<creds, last_oauth_refresh_failure, posts, served, data, storage_file,
                 recorded>>

\* the try block that accounts a buffered response: endpoints.py lines 210-222,
\* providers.py lines 85-97, 164-176, 248-260, 343-355. An exception of
\* record_usage is logged and dropped.
Account(reply, provider, model, tier) ==
  \E usage \in {Get(reply.json, "usage", EmptyObject)} :
    IF DOMAIN usage # {}
    THEN \E input_tokens \in {Get(usage, "input_tokens", JInt(0))} :
         \E output_tokens \in {Get(usage, "output_tokens", JInt(0))} :
         \E r \in {record_usage(data, storage_file, input_tokens, output_tokens,
                                provider, model, tier, now)} :
           /\ data' = r.data
           /\ storage_file' = r.file
           /\ recorded' = Append(recorded, UsageRecord(now, input_tokens, output_tokens,
                                                       provider, model, tier))
    ELSE UNCHANGED <<data, storage_file, recorded>>

\* the request is answered with what the adapter returns
Answer(reply, status_code, kind, error_type, content) ==
  px' = Respond([px EXCEPT !.upstream = reply], status_code, kind, error_type, content)

\* response.json()["content"] of an upstream response, [] if it has none
ContentOf(reply) == Get(reply.json, "content", <<>>)

\* providers.py lines 56-112: the POST of proxy_to_antigravity returns
ProxyToAntigravity(reply) ==
  /\ px.pc = "upstream" /\ px.backend = "antigravity"
  /\ UNCHANGED <<creds, last_oauth_refresh_failure, posts, served>>
  /\ IF reply.kind = "read_timeout"
     THEN /\ Answer(reply, 504, "json", "timeout", <<>>)
          /\ UNCHANGED <<data, storage_file, recorded>>
     ELSE IF reply.kind # "response"
     THEN /\ Answer(reply, 500, "json", "internal_error", <<>>)
          /\ UNCHANGED <<data, storage_file, recorded>>
     ELSE IF px.stream
     THEN /\ Answer(reply, reply.status_code, "stream", None, ContentOf(reply))
          /\ UNCHANGED <<data, storage_file, recorded>>
     ELSE /\ Answer(reply, reply.status_code, "json", None, ContentOf(reply))
          /\ IF reply.status_code >= 400
             THEN UNCHANGED <<data, storage_file, recorded>>
             ELSE Account(reply, "antigravity", Get(px.body_json, "model", "unknown"),
                          "unknown")

\* providers.py lines 135-191, 216-275, 307-370: the POST of proxy_to_copilot,
\* proxy_to_openrouter or proxy_to_custom returns; streamed is the body the
\* adapter yields for a streamed response
AdapterReturns(provider, reply, streamed) ==
  /\ px.pc = "upstream" /\ px.backend = provider
  /\ UNCHANGED <<creds, last_oauth_refresh_failure, posts, served>>
  /\ IF reply.kind \in {"read_timeout", "connect_timeout"}
     THEN /\ Answer(reply, 504, "json", "timeout", <<>>)
          /\ UNCHANGED <<data, storage_file, recorded>>
     ELSE IF reply.kind # "response"
     THEN /\ Answer(reply, 500, "json", "internal_error", <<>>)
          /\ UNCHANGED <<data, storage_file, recorded>>
     ELSE IF px.stream
     THEN /\ Answer(reply, reply.status_code, "stream", None, streamed)
          /\ UNCHANGED <<data, storage_file, recorded>>
     ELSE /\ Answer(reply, reply.status_code, "json", None, ContentOf(reply))
          /\ IF reply.status_code # 200
             THEN UNCHANGED <<data, storage_file, recorded>>
             ELSE Account(reply, provider, Get(px.body_json, "model", "unknown"),
                          "unknown")

\* providers.py lines 142-151: the bytes of the stream are passed on as they are
ProxyToCopilot(reply) == AdapterReturns("copilot", reply, ContentOf(reply))

\* providers.py lines 223-235: likewise
ProxyToOpenrouter(reply) == AdapterReturns("openrouter", reply, ContentOf(reply))

\* providers.py lines 317-330: the stream is repaired first
ProxyToCustom(reply) ==
  AdapterReturns("custom", reply, fix_streaming_tool_inputs(ContentOf(reply)))

\* endpoints.py lines 161-234: the POST proxy_request makes itself, to the glm
\* backend or to Anthropic, returns
ProxyDirect(reply) ==
  /\ px.pc = "upstream" /\ px.backend \in {"zai", "anthropic"}
  /\ UNCHANGED <<creds, last_oauth_refresh_failure, posts, served>>
  /\ IF reply.kind # "response"
     THEN /\ Answer(reply, 500, "json", "internal_error", <<>>)
          /\ UNCHANGED <<data, storage_file, recorded>>
     ELSE IF px.stream
     THEN /\ Answer(reply, reply.status_code, "stream", None, ContentOf(reply))
          /\ UNCHANGED <<data, storage_file, recorded>>
     ELSE IF reply.status_code # 200
     THEN /\ Answer(reply, reply.status_code, "json", None, ContentOf(reply))
          /\ UNCHANGED <<data, storage_file, recorded>>
     ELSE /\ Answer(reply, reply.status_code, "json", None,
                    IF px.use_real_anthropic /\ ContentOf(reply) # <<>>
                    THEN FilterResponseContent(ContentOf(reply))
                    ELSE ContentOf(reply))
          /\ Account(reply, ProviderName(px.route.provider_type, px.use_real_anthropic),
                     px.translated_model, px.route.tier)

(***************************************************************************)
(* api/endpoints.py: update_config_endpoint, and core/config.py:           *)
(* save_config.                                                            *)
(***************************************************************************)
\* only the provider of the sonnet tier is validated
ProviderKeys_SonnetOnly == {"sonnet_provider"}

\* endpoints.py line 380
ProviderKeys == {"sonnet_provider", "haiku_provider", "opus_provider"}

\* endpoints.py line 390
AcceptedKeys ==
  ProviderKeys \cup {"sonnet_model", "haiku_model", "opus_model"}

\* endpoints.py lines 380-386: some tier of the request names a provider that
\* is not in valid_providers
InvalidProvider(updates) ==
  \E tier \in ProviderKeys :
    tier \in DOMAIN updates /\ updates[tier] \notin valid_providers

\* endpoints.py lines 388-392: the accepted keys are written, then last_updated
ApplyUpdates(cfg, updates, t) ==
  [key \in DOMAIN cfg \cup ((DOMAIN updates) \cap AcceptedKeys) \cup {"last_updated"} |->
     IF key = "last_updated" THEN t
     ELSE IF key \in (DOMAIN updates) \cap AcceptedKeys THEN updates[key]
     ELSE cfg[key]]

\* config.py lines 198-206: config.json after save_config. open(.., 'w') may
\* raise and leave the file as it was; json.dump may raise after the file was
\* truncated; both exceptions are logged and dropped.
save_config(cfg, file, outcome) ==
  CASE outcome = "written" -> [state |-> "ok", content |-> cfg]
    [] outcome = "open_failed" -> file
    [] outcome = "dump_failed" -> [state |-> "partial", content |-> EmptyObject]

\* the handler of a POST /config that has not arrived yet. The fields from
\* config_before on are history: RuntimeConfig and config.json before and after
\* the handler ran.
IdleConfigHandler ==
  [pc |-> "idle", body |-> [kind |-> "empty", json |-> EmptyObject], status_code |-> 0,
   config_before |-> EmptyObject, file_before |-> EmptyObject,
   config_after |-> EmptyObject, file_after |-> EmptyObject]

\* endpoints.py line 376: a POST /config arrives; its handler waits for the body
ConfigPost(h, body) ==
  /\ cf[h].pc = "idle"
  /\ cf' = [cf EXCEPT ![h] = [IdleConfigHandler EXCEPT !.pc = "body", !.body = body]]
  /\ UNCHANGED <<runtime_config, config_file>>

\* what a handler leaves behind when it returns
ConfigReturned(h, status_code, cfg, file) ==
  [cf EXCEPT ![h] = [@ EXCEPT !.pc = "done", !.status_code = status_code,
                              !.config_before = runtime_config,
                              !.file_before = config_file,
                              !.config_after = cfg, !.file_after = file]]

\* endpoints.py lines 377-406: update_config_endpoint from the body it has read
\* to its response; the handler does not yield in between
update_config_endpoint(h, outcome) ==
  /\ cf[h].pc = "body"
  /\ IF cf[h].body.kind \in {"invalid", "nonobject"}
     THEN /\ cf' = ConfigReturned(h, 500, runtime_config, config_file)
          /\ UNCHANGED <<runtime_config, config_file>>
     ELSE
     \E updates \in {ParsedBody(cf[h].body)} :
       IF InvalidProvider(updates)
       THEN /\ cf' = ConfigReturned(h, 400, runtime_config, config_file)
            /\ UNCHANGED <<runtime_config, config_file>>
       ELSE
       \E cfg \in {ApplyUpdates(runtime_config, updates, now)} :
       \E file \in {save_config(cfg, config_file, outcome)} :
         /\ runtime_config' = cfg
         /\ config_file' = file
         /\ cf' = ConfigReturned(h, 200, cfg, file)

\* the response has been sent and the handler is gone
ConfigDone(h) ==
  /\ cf[h].pc = "done"
  /\ cf' = [cf EXCEPT ![h] = [IdleConfigHandler EXCEPT !.pc = "closed"]]
  /\ UNCHANGED <<runtime_config, config_file>>

\* routing.py lines 32-186: a request is routed under the RuntimeConfig of the
\* moment, which rt keeps as history
GetProviderConfig(model) ==
  /\ ~rt.done
  /\ rt' = [model |-> model, result |-> get_provider_config(model, runtime_config, env),
            done |-> TRUE, config |-> runtime_config]
  /\ UNCHANGED <<runtime_config, config_file, cf>>

(***************************************************************************)
(* Inputs of the router: model names, environments and configurations.    *)
(***************************************************************************)
\* "claude-sonnet-4-5-20250929"
N_claude_sonnet ==
  <<"c", "l", "a", "u", "d", "e", "-", "s", "o", "n", "n", "e", "t", "-", "4", "-", "5", "-", "2", "0", "2", "5", "0", "9", "2", "9">>
\* "claude-3-5-haiku-20241022"
N_claude_haiku ==
  <<"c", "l", "a", "u", "d", "e", "-", "3", "-", "5", "-", "h", "a", "i", "k", "u", "-", "2", "0", "2", "4", "1", "0", "2", "2">>
\* "claude-opus-4-20250514"
N_claude_opus ==
  <<"c", "l", "a", "u", "d", "e", "-", "o", "p", "u", "s", "-", "4", "-", "2", "0", "2", "5", "0", "5", "1", "4">>
\* "Claude-3-HAIKU"
N_Claude_HAIKU ==
  <<"C", "l", "a", "u", "d", "e", "-", "3", "-", "H", "A", "I", "K", "U">>
\* "claude-sonnet-4-5[1m]"
N_sonnet_1m ==
  <<"c", "l", "a", "u", "d", "e", "-", "s", "o", "n", "n", "e", "t", "-", "4", "-", "5", "[", "1", "m", "]">>
\* "glm-4.7"
N_glm_47 ==
  <<"g", "l", "m", "-", "4", ".", "7">>
\* "glm-4.6"
N_glm_46 ==
  <<"g", "l", "m", "-", "4", ".", "6">>
\* "glm-5"
N_glm_5 ==
  <<"g", "l", "m", "-", "5">>
\* "GLM-4-Flash"
N_GLM_Flash ==
  <<"G", "L", "M", "-", "4", "-", "F", "l", "a", "s", "h">>
\* "zai-4"
N_zai_4 ==
  <<"z", "a", "i", "-", "4">>
\* "zai-flash"
N_zai_flash ==
  <<"z", "a", "i", "-", "f", "l", "a", "s", "h">>
\* "gemini-3-flash"
N_gemini_3_flash ==
  <<"g", "e", "m", "i", "n", "i", "-", "3", "-", "f", "l", "a", "s", "h">>
\* "gemini-3-pro-high"
N_gemini_3_pro_high ==
  <<"g", "e", "m", "i", "n", "i", "-", "3", "-", "p", "r", "o", "-", "h", "i", "g", "h">>
\* "gemini-2-pro"
N_gemini_2_pro ==
  <<"g", "e", "m", "i", "n", "i", "-", "2", "-", "p", "r", "o">>
\* "gemini-1.5-pro"
N_gemini_15_pro ==
  <<"g", "e", "m", "i", "n", "i", "-", "1", ".", "5", "-", "p", "r", "o">>
\* "gemini-opus"
N_gemini_opus ==
  <<"g", "e", "m", "i", "n", "i", "-", "o", "p", "u", "s">>
\* "glm-sonnet-5"
N_glm_sonnet_5 ==
  <<"g", "l", "m", "-", "s", "o", "n", "n", "e", "t", "-", "5">>
\* "sonnet-haiku"
N_sonnet_haiku ==
  <<"s", "o", "n", "n", "e", "t", "-", "h", "a", "i", "k", "u">>
\* "opus-sonnet"
N_opus_sonnet ==
  <<"o", "p", "u", "s", "-", "s", "o", "n", "n", "e", "t">>
\* "gpt-4"
N_gpt_4 ==
  <<"g", "p", "t", "-", "4">>
\* "xglm-5"
N_xglm_5 ==
  <<"x", "g", "l", "m", "-", "5">>
\* "flash-5"
N_flash ==
  <<"f", "l", "a", "s", "h", "-", "5">>

ModelNames ==
  {N_claude_sonnet, N_claude_haiku, N_claude_opus, N_Claude_HAIKU, N_sonnet_1m,
   N_glm_47, N_glm_46, N_glm_5, N_GLM_Flash, N_zai_4, N_zai_flash,
   N_gemini_3_flash, N_gemini_3_pro_high, N_gemini_2_pro, N_gemini_15_pro,
   N_gemini_opus, N_glm_sonnet_5, N_sonnet_haiku, N_opus_sonnet,
   N_gpt_4, N_xglm_5, N_flash, <<>>}

\* the per-tier API key and base URL of the glm/zai backend: all set, all unset,
\* a key without a URL, a URL without a key, and one tier only
GlmCredentials ==
  { [hk |-> h[1], hu |-> h[2], sk |-> s[1], su |-> s[2], ok |-> o[1], ou |-> o[2]] :
      <<h, s, o>> \in
        { << <<"haiku-key", "https://haiku.example">>, <<"sonnet-key", "https://sonnet.example">>,
             <<"opus-key", "https://opus.example">> >>,
          << <<None, None>>, <<None, None>>, <<None, None>> >>,
          << <<"haiku-key", None>>, <<"sonnet-key", None>>, <<"opus-key", None>> >>,
          << <<None, "https://haiku.example">>, <<"", "https://sonnet.example">>,
             <<None, "https://opus.example">> >>,
          << <<"haiku-key", "https://haiku.example">>, <<None, None>>, <<None, None>> >>,
          << <<None, None>>, <<"sonnet-key", "https://sonnet.example">>,
             <<"opus-key", "https://opus.example">> >> } }

MakeEnv(ag, cp, orKey, glm, ck, cu, pk) ==
  [ANTIGRAVITY_ENABLED |-> ag, ENABLE_COPILOT |-> cp, OPENROUTER_API_KEY |-> orKey,
   HAIKU_PROVIDER_API_KEY |-> glm.hk, HAIKU_PROVIDER_BASE_URL |-> glm.hu,
   SONNET_PROVIDER_API_KEY |-> glm.sk, SONNET_PROVIDER_BASE_URL |-> glm.su,
   OPUS_PROVIDER_API_KEY |-> glm.ok, OPUS_PROVIDER_BASE_URL |-> glm.ou,
   CUSTOM_PROVIDER_API_KEY |-> ck, CUSTOM_PROVIDER_BASE_URL |-> cu,
   PROXY_API_KEY |-> pk]

RouteEnvs ==
  { MakeEnv(ag, cp, orKey, glm, ck, cu, Unset) :
      ag \in BOOLEAN, cp \in BOOLEAN, orKey \in {None, "or-key"},
      glm \in GlmCredentials,
      ck \in {None, "custom-key"}, cu \in {None, "https://custom.example"} }

\* a provider name that is not a backend; load_config copies config.json unchecked
ProviderNames == valid_providers \cup {"bogus"}

ProviderOrder ==
  <<"antigravity", "zai", "glm", "anthropic", "copilot", "openrouter", "custom", "bogus">>

MakeConfig(sp, hp, op, sm, hm, om, ts) ==
  [sonnet_provider |-> sp, haiku_provider |-> hp, opus_provider |-> op,
   sonnet_model |-> sm, haiku_model |-> hm, opus_model |-> om, last_updated |-> ts]

\* core/config.py lines 155-163, with the provider defaults
DefaultConfig ==
  MakeConfig("antigravity", "antigravity", "anthropic",
             ANTIGRAVITY_SONNET_MODEL, ANTIGRAVITY_HAIKU_MODEL, ANTIGRAVITY_OPUS_MODEL, 0)

\* configurations in which every tier is seen with every provider: the three tiers
\* take consecutive providers of ProviderOrder
RotatedConfigs ==
  { [DefaultConfig EXCEPT
       !.sonnet_provider = ProviderOrder[k],
       !.haiku_provider = ProviderOrder[(k % Len(ProviderOrder)) + 1],
       !.opus_provider = ProviderOrder[((k + 1) % Len(ProviderOrder)) + 1]] :
      k \in 1..Len(ProviderOrder) }

vars ==
  <<env, runtime_config, rt, now, creds, oauth_refresh_lock,
    last_oauth_refresh_failure, th, posts, ticks,
    data, storage_file, recorded, px, served, mw, config_file, cf, sz, tk, lk, agp>>

routeVars == <<env, runtime_config, rt>>

oauthVars ==
  <<now, creds, oauth_refresh_lock, last_oauth_refresh_failure, th, posts, ticks>>

trackerVars == <<data, storage_file, recorded>>

proxyVars == <<px, served>>

authVars == <<mw>>

configVars == <<config_file, cf>>

sanitizeVars == <<sz>>

storeVars == <<tk>>

lockVars == <<lk>>

stopVars == <<agp>>

(***************************************************************************)
(* Claims about the router.                                                *)
(***************************************************************************)
\* the tier a name is classified into, the haiku default included
ClassifiedTier(model) ==
  IF DetectTier(model) = "Unknown" THEN "Haiku" ELSE DetectTier(model)

\* the provider RuntimeConfig names for a tier
ConfiguredProvider(cfg, tier) ==
  CASE tier = "Sonnet" -> cfg.sonnet_provider
    [] tier = "Haiku" -> cfg.haiku_provider
    [] tier = "Opus" -> cfg.opus_provider

\* glm and zai name one backend
SameBackend(p, q) == p = q \/ {p, q} \subseteq {"glm", "zai"}

\* what each backend needs at routing time (spec 4.1, backend selection)
PrerequisitesMet(provider, tier, e) ==
  CASE provider = "antigravity" -> e.ANTIGRAVITY_ENABLED
    [] provider \in {"glm", "zai"} ->
         (CASE tier = "Sonnet" -> Truthy(e.SONNET_PROVIDER_API_KEY) /\ Truthy(e.SONNET_PROVIDER_BASE_URL)
            [] tier = "Haiku" -> Truthy(e.HAIKU_PROVIDER_API_KEY) /\ Truthy(e.HAIKU_PROVIDER_BASE_URL)
            [] tier = "Opus" -> Truthy(e.OPUS_PROVIDER_API_KEY) /\ Truthy(e.OPUS_PROVIDER_BASE_URL))
    [] provider = "copilot" -> e.ENABLE_COPILOT
    [] provider = "openrouter" -> Truthy(e.OPENROUTER_API_KEY)
    [] provider = "custom" -> Truthy(e.CUSTOM_PROVIDER_API_KEY) /\ Truthy(e.CUSTOM_PROVIDER_BASE_URL)
    [] provider = "anthropic" -> TRUE
    [] OTHER -> FALSE

\* C2: the router never substitutes backends. Whatever the model name, the
\* configuration and the backend availability, get_provider_config returns
\* 'misconfigured' or the backend RuntimeConfig names for the tier the name was
\* classified into (the haiku default included), with its prerequisites met.
C2_NeverSubstitutes ==
  rt.done =>
    LET tier == ClassifiedTier(rt.model)
        configured == ConfiguredProvider(runtime_config, tier)
    IN \/ rt.result.provider_type = "misconfigured"
       \/ /\ SameBackend(rt.result.provider_type, configured)
          /\ PrerequisitesMet(configured, tier, env)

\* the same statement for the names that some classification rule matches
C2_KnownTierOnly ==
  (rt.done /\ DetectTier(rt.model) # "Unknown") =>
    LET tier == DetectTier(rt.model)
        configured == ConfiguredProvider(runtime_config, tier)
    IN \/ rt.result.provider_type = "misconfigured" /\ ~PrerequisitesMet(configured, tier, env)
       \/ /\ SameBackend(rt.result.provider_type, configured)
          /\ PrerequisitesMet(configured, tier, env)

\* the model names the exact-match rule knows, and those RuntimeConfig holds
ConfiguredModelNames(cfg) ==
  {ZAI_HAIKU_MODEL, ZAI_SONNET_MODEL, ZAI_OPUS_MODEL,
   ANTIGRAVITY_HAIKU_MODEL, ANTIGRAVITY_SONNET_MODEL, ANTIGRAVITY_OPUS_MODEL,
   cfg.sonnet_model, cfg.haiku_model, cfg.opus_model}

\* C10: a model name that is not a configured backend model name is classified by
\* the first matching rule: 'haiku', then 'sonnet', then 'opus' as case-insensitive
\* substrings; else prefix glm- or zai- gives Haiku with 'flash' or '5' and Sonnet
\* without; else prefix gemini- gives Haiku with 'flash' and Sonnet without.
C10_FirstMatchingRule ==
  (rt.done /\ rt.model \notin ConfiguredModelNames(runtime_config)) =>
    LET l == Lower(rt.model)
        tier == rt.result.tier
        keyword == Contains(l, W_haiku) \/ Contains(l, W_sonnet) \/ Contains(l, W_opus)
        glmzai == StartsWith(l, W_glm_) \/ StartsWith(l, W_zai_)
    IN /\ Contains(l, W_haiku) => tier = "Haiku"
       /\ (~Contains(l, W_haiku) /\ Contains(l, W_sonnet)) => tier = "Sonnet"
       /\ (~Contains(l, W_haiku) /\ ~Contains(l, W_sonnet) /\ Contains(l, W_opus))
            => tier = "Opus"
       /\ (~keyword /\ glmzai /\ (Contains(l, W_flash) \/ Contains(l, W_5)))
            => tier = "Haiku"
       /\ (~keyword /\ glmzai /\ ~Contains(l, W_flash) /\ ~Contains(l, W_5))
            => tier = "Sonnet"
       /\ (~keyword /\ ~glmzai /\ StartsWith(l, W_gemini_) /\ Contains(l, W_flash))
            => tier = "Haiku"
       /\ (~keyword /\ ~glmzai /\ StartsWith(l, W_gemini_) /\ ~Contains(l, W_flash))
            => tier = "Sonnet"

\* a glm- name with a '5' and no keyword has been routed as Haiku
C10_Witness ==
  /\ rt.done
  /\ rt.model = N_glm_5
  /\ rt.model \notin ConfiguredModelNames(runtime_config)
  /\ rt.result.tier = "Haiku"

(***************************************************************************)
(* The credential manager under concurrent callers.                        *)
(***************************************************************************)
Callers == 1..MaxCallers

\* the clock at the start, well past the epoch
StartTime == 100000 * 1000

\* the stored token: expired a second ago, expiring exactly at the 5 minute
\* buffer, valid for a second more than the buffer, and one without expiresAt
InitialCreds ==
  {NoCredsFile("absent"), NoCredsFile("corrupt")} \cup
  { CredsFile("ok", "token-0", r, e) :
      r \in {None, "refresh-0"},
      e \in {StartTime - 1000, StartTime + buffer_ms, StartTime + buffer_ms + 1000, 0} }

\* what the token endpoint answers with a 200 to the n-th POST: expires_in may be
\* missing or exactly the buffer; refresh_token may be missing
TokenResponses(n) ==
  LET token == [access_token |-> "token-" \o ToString(n)] IN
  { token @@ e @@ r :
      e \in {<<>>, [expires_in |-> 300]},
      r \in {<<>>, [refresh_token |-> "refresh-1"]} }

\* how far the clock advances at once, in milliseconds: half a second, and half
\* a second less than the cooldown
TickSteps == {500, 59500}

InitOAuthIdle ==
  /\ now = StartTime
  /\ oauth_refresh_lock = NoHolder
  /\ last_oauth_refresh_failure = 0
  /\ th = [t \in Callers |-> IdleCaller]
  /\ posts = <<>>
  /\ ticks = 0

\* no glm credentials, and all of them
GlmNone == [hk |-> None, hu |-> None, sk |-> None, su |-> None, ok |-> None, ou |-> None]

GlmAll ==
  [hk |-> "haiku-key", hu |-> "https://haiku.example", sk |-> "sonnet-key",
   su |-> "https://sonnet.example", ok |-> "opus-key", ou |-> "https://opus.example"]

\* an environment that sets nothing
QuietEnv == MakeEnv(FALSE, FALSE, None, GlmNone, None, None, Unset)

InitRouteIdle ==
  /\ env = QuietEnv
  /\ runtime_config = DefaultConfig
  /\ rt = [model |-> <<>>, result |-> None, done |-> TRUE]

InitTrackerIdle ==
  /\ data = EmptyData
  /\ storage_file = [state |-> "absent", content |-> EmptyData]
  /\ recorded = <<>>

InitProxyIdle ==
  /\ px = IdleProxy
  /\ served = 0

InitAuthIdle == mw = IdleMiddleware

ConfigHandlers == 1..MaxConfigPosts

\* config.json as load_config leaves it at startup (config.py lines 194-195)
InitConfigIdle ==
  /\ config_file = [state |-> "ok", content |-> DefaultConfig]
  /\ cf = [h \in ConfigHandlers |-> IdleConfigHandler]

\* no body is being sanitized
IdleSanitizer ==
  [pc |-> "idle", body |-> EmptyObject, once |-> EmptyObject, twice |-> EmptyObject]

InitSanitizeIdle == sz = IdleSanitizer

InitStoreIdle == tk = IdleTracker

\* the handlers of the requests in flight, and the main thread at startup
Procs == 1..MaxProcs

Main == MaxProcs + 1

\* a handler that has not been called. prog is the sequence of its steps and pc
\* the next of them; reads holds what it has read from runtime_config; seen,
\* arrived and status are history: the versions of RuntimeConfig its routing
\* decision read, the version at its arrival, and the status it answered.
IdleProc ==
  [op |-> "none", prog |-> <<>>, pc |-> 1, model |-> <<>>,
   body |-> [kind |-> "empty", json |-> EmptyObject], reads |-> EmptyObject,
   seen |-> {}, result |-> None, status |-> 0, arrived |-> 0]

\* config_lock is free and the event loop runs nobody. version counts the
\* writes of runtime_config, history keeps its value after each of them, and
\* unlocked the places that touched it without holding config_lock (history).
IdleLock ==
  [lock |-> NoHolder, running |-> NoHolder, version |-> 0, history |-> <<>>,
   unlocked |-> {}, procs |-> [p \in 1..(MaxProcs + 1) |-> IdleProc]]

InitLockIdle == lk = IdleLock

\* no helper was started: no handle is held, nothing was sent to a helper and
\* nobody has called stop_antigravity_server. sent and ended are history: the
\* signals sent to the helper, and the invocations that are over.
IdleStop ==
  [handle |-> None, child |-> "none", phase |-> "serving", stack |-> <<>>,
   clock |-> 0, signals |-> 0, sent |-> <<>>, ended |-> <<>>]

InitStopIdle == agp = IdleStop

InitOAuth ==
  /\ InitRouteIdle
  /\ InitOAuthIdle
  /\ InitTrackerIdle
  /\ InitProxyIdle
  /\ InitAuthIdle
  /\ InitConfigIdle
  /\ InitSanitizeIdle
  /\ InitStoreIdle
  /\ InitLockIdle
  /\ InitStopIdle
  /\ creds \in InitialCreds

NextOAuth ==
  \/ \E t \in Callers : OAuthEnter(t)
  \/ \E t \in Callers : OAuthLocked(t)
  \/ \E t \in Callers : \E r \in TokenResponses(Len(posts)) : OAuthRefreshed(t, r)
  \/ \E t \in Callers : OAuthRefreshFailed(t)
  \/ \E t \in Callers : OAuthReturn(t)
  \/ \E d \in TickSteps : Tick(d)

SpecOAuth ==
  InitOAuth /\ [][NextOAuth /\ UNCHANGED <<routeVars, trackerVars, proxyVars, authVars, configVars, sanitizeVars, storeVars, lockVars, stopVars>>]_vars

(***************************************************************************)
(* Claims about the credential manager.                                    *)
(***************************************************************************)
\* C1: single-flight refresh. After a refresh POST has succeeded, no later POST is
\* made while the token it stored still has more than 5 minutes left, at most
\* one POST is in flight at any time, and a caller that waited for the lock and
\* found the token refreshed returns the token a successful POST stored.
C1_SingleFlight ==
  /\ \A i \in 1..Len(posts) : \A j \in 1..Len(posts) :
        (i < j /\ posts[i].status = "ok")
          => posts[j].at + buffer_ms >= posts[i].expires_at
  /\ Cardinality({t \in DOMAIN th : th[t].pc = "posting"}) <= 1
  /\ \A t \in DOMAIN th :
        (th[t].pc = "done" /\ th[t].via = "already_refreshed")
          => \E i \in 1..Len(posts) :
               posts[i].status = "ok" /\ posts[i].access_token = th[t].ret

\* two callers saw the expiring token at the same time; one POSTed and stored a
\* token good for an hour, the other returned that token, and one POST was made
C1_Witness ==
  \E t \in DOMAIN th : \E u \in DOMAIN th :
    /\ t # u
    /\ ticks = 0
    /\ th[t].pc = "done" /\ th[t].via = "refreshed"
    /\ th[u].pc = "done" /\ th[u].via = "already_refreshed"
    /\ Len(posts) = 1
    /\ posts[1].expires_at > now + buffer_ms
    /\ th[u].ret = posts[1].access_token

\* C7: the token endpoint is called at most once per 60 s: any two POSTs are at
\* least 60 s apart, whether the earlier one succeeded or failed and whatever
\* expires_in it returned.
C7_AtMostOncePer60s ==
  \A i \in 1..Len(posts) : \A j \in 1..Len(posts) :
    i < j => posts[j].at - posts[i].at >= OAUTH_REFRESH_COOLDOWN * 1000

\* the failure branch of C7 alone: a POST that follows a failed one is at least
\* 60 s later.  The stamp of a failure is int(seconds), so this is off by the
\* truncated fraction and does not hold either.
C7_AfterFailure ==
  \A i \in 1..Len(posts) : \A j \in 1..Len(posts) :
    (i < j /\ posts[i].status = "failed")
      => posts[j].at - posts[i].at >= OAUTH_REFRESH_COOLDOWN * 1000

\* what does hold: a POST that follows a failed one is more than 59 s later, the
\* failure being stamped in whole seconds
C7_AfterFailure59 ==
  \A i \in 1..Len(posts) : \A j \in 1..Len(posts) :
    (i < j /\ posts[i].status = "failed")
      => posts[j].at - posts[i].at > (OAUTH_REFRESH_COOLDOWN - 1) * 1000

(***************************************************************************)
(* The router alone: one call of get_provider_config on every input.       *)
(***************************************************************************)
InitRoute ==
  /\ InitOAuthIdle
  /\ InitTrackerIdle
  /\ InitProxyIdle
  /\ InitAuthIdle
  /\ InitConfigIdle
  /\ InitSanitizeIdle
  /\ InitStoreIdle
  /\ InitLockIdle
  /\ InitStopIdle
  /\ creds = NoCredsFile("absent")
  /\ env \in RouteEnvs
  /\ runtime_config \in RotatedConfigs
  /\ rt \in [model : ModelNames, result : {None}, done : {FALSE}]

Route ==
  /\ ~rt.done
  /\ rt' = [rt EXCEPT !.result = get_provider_config(rt.model, runtime_config, env),
                       !.done = TRUE]
  /\ UNCHANGED <<env, runtime_config>>

NextRoute == Route

SpecRoute ==
  InitRoute /\ [][NextRoute /\ UNCHANGED <<oauthVars, trackerVars, proxyVars, authVars, configVars, sanitizeVars, storeVars, lockVars, stopVars>>]_vars

(***************************************************************************)
(* The usage tracker alone: record_usage called again and again.           *)
(***************************************************************************)
\* arguments of record_usage: token counts, provider, model and tier
TrackerArgs ==
  { [input_tokens |-> 0, output_tokens |-> 0, provider |-> "anthropic",
     model |-> N_claude_sonnet, tier |-> "Sonnet"],
    [input_tokens |-> 7, output_tokens |-> 3, provider |-> "anthropic",
     model |-> N_claude_sonnet, tier |-> "Sonnet"],
    [input_tokens |-> 7, output_tokens |-> 3, provider |-> "zai",
     model |-> N_glm_47, tier |-> "Haiku"],
    [input_tokens |-> 1, output_tokens |-> 2, provider |-> "custom",
     model |-> N_gpt_4, tier |-> "unknown"] }

\* the arguments of the k-th call: any of TrackerArgs for the first call and for
\* the calls from the one that fills history on; in between, one record per call
\* that carries k, so that no two records of history are equal
ArgsOfCall(k) ==
  IF k <= 1 \/ k >= HistoryCap
  THEN TrackerArgs
  ELSE { [input_tokens |-> k, output_tokens |-> 1, provider |-> "openrouter",
          model |-> N_claude_opus, tier |-> "Opus"] }

InitTracker ==
  /\ InitRouteIdle
  /\ InitOAuthIdle
  /\ creds = NoCredsFile("absent")
  /\ InitTrackerIdle
  /\ InitProxyIdle
  /\ InitAuthIdle
  /\ InitConfigIdle
  /\ InitSanitizeIdle
  /\ InitStoreIdle
  /\ InitLockIdle
  /\ InitStopIdle

NextTracker ==
  \E a \in ArgsOfCall(Len(recorded) + 1) :
    RecordUsage(JInt(a.input_tokens), JInt(a.output_tokens), a.provider, a.model, a.tier)

SpecTracker ==
  InitTracker /\ [][NextTracker /\ UNCHANGED <<routeVars, oauthVars, proxyVars, authVars, configVars, sanitizeVars, storeVars, lockVars, stopVars>>]_vars

(***************************************************************************)
(* Claims about the usage tracker.                                         *)
(***************************************************************************)
\* the record history holds for a call of record_usage
HistoryEntry(call) ==
  [call EXCEPT !.input_tokens = @.v, !.output_tokens = @.v]

Secret ==
  <<"s", "3">>

WrongKey ==
  <<"n", "o">>

\* "Bearer ", "bearer ", "BEARER ", "Bearer  " and "Bearer"
P_Bearer ==
  <<"B", "e", "a", "r", "e", "r", " ">>

P_bearer ==
  <<"b", "e", "a", "r", "e", "r", " ">>

P_BEARER ==
  <<"B", "E", "A", "R", "E", "R", " ">>

AuthorizationValues ==
  {P_Bearer \o Secret, P_bearer \o Secret, P_BEARER \o Secret, Secret,
   P_Bearer \o WrongKey, P_Bearer \o <<" ">> \o Secret,
   <<"B", "e", "a", "r", "e", "r">> \o Secret, WrongKey}

AuthPaths == {"/health", "/favicon.ico", "/v1/messages", "/config", "/health/"}

AuthRequests ==
  { [path |-> p, query_params |-> q, headers |-> x @@ a @@ k] :
      p \in AuthPaths,
      q \in {EmptyObject} \cup {("key" :> v) : v \in {Secret, WrongKey}},
      x \in {EmptyObject} \cup {("x-api-key" :> v) : v \in {Secret, WrongKey}},
      a \in {EmptyObject} \cup {("authorization" :> v) : v \in AuthorizationValues},
      k \in {EmptyObject} \cup {("x-proxy-key" :> v) : v \in {Secret, WrongKey}} }

InitAuth ==
  /\ \E k \in {Unset, Str(<<>>), Str(Secret)} : env = [QuietEnv EXCEPT !.PROXY_API_KEY = k]
  /\ runtime_config = DefaultConfig
  /\ rt = [model |-> <<>>, result |-> None, done |-> TRUE]
  /\ InitOAuthIdle
  /\ creds = NoCredsFile("absent")
  /\ InitTrackerIdle
  /\ InitProxyIdle
  /\ InitAuthIdle
  /\ InitConfigIdle
  /\ InitSanitizeIdle
  /\ InitStoreIdle
  /\ InitLockIdle
  /\ InitStopIdle

NextAuth ==
  \/ \E request \in AuthRequests : Dispatch(request)
  \/ CallNext

SpecAuth ==
  InitAuth /\ [][NextAuth /\ UNCHANGED <<routeVars, oauthVars, trackerVars, proxyVars, configVars, sanitizeVars, storeVars, lockVars, stopVars>>]_vars

(***************************************************************************)
(* Claims about the middleware.                                            *)
(***************************************************************************)
\* the request carries the secret in one of the four places, as it is or after
\* "Bearer " in the Authorization header
PresentsSecret(request, secret) ==
  \/ "key" \in DOMAIN request.query_params /\ request.query_params["key"] = secret
  \/ "x-api-key" \in DOMAIN request.headers /\ request.headers["x-api-key"] = secret
  \/ "x-proxy-key" \in DOMAIN request.headers /\ request.headers["x-proxy-key"] = secret
  \/ /\ "authorization" \in DOMAIN request.headers
     /\ LET auth == request.headers["authorization"]
        IN \/ auth = secret
           \/ /\ Len(auth) = Len(P_Bearer) + Len(secret)
              /\ Lower(SubSeq(auth, 1, Len(P_Bearer))) = P_bearer
              /\ SubSeq(auth, Len(P_Bearer) + 1, Len(auth)) = secret

\* C6: with a shared secret configured, a request to a path other than /health
\* and /favicon.ico reaches its handler only if it presents the secret; one that
\* does not is answered 401 authentication_error, its handler is not invoked
\* and nothing else changes.
C6_AuthRequired ==
  (TruthyOpt(env.PROXY_API_KEY) /\ mw.pc # "idle"
     /\ mw.request.path \notin {"/health", "/favicon.ico"})
  => /\ (mw.pc = "call_next" \/ mw.handler_calls > 0)
          => PresentsSecret(mw.request, env.PROXY_API_KEY.value)
     /\ ~PresentsSecret(mw.request, env.PROXY_API_KEY.value)
          => /\ mw.pc = "done"
             /\ mw.status_code = 401
             /\ mw.error_type = "authentication_error"
             /\ mw.handler_calls = 0
             /\ px = IdleProxy
             /\ runtime_config = DefaultConfig
             /\ data = EmptyData
             /\ recorded = <<>>

\* a request for /config with a wrong x-api-key and nothing else was answered 401
C6_Witness ==
  /\ TruthyOpt(env.PROXY_API_KEY)
  /\ mw.pc = "done"
  /\ mw.request.path = "/config"
  /\ "x-api-key" \in DOMAIN mw.request.headers
  /\ ~PresentsSecret(mw.request, env.PROXY_API_KEY.value)
  /\ mw.status_code = 401
  /\ mw.handler_calls = 0

(***************************************************************************)
(* The dispatcher: requests answered one after the other.                  *)
(***************************************************************************)
\* content blocks
B_text == [type |-> "text", text |-> "t"]

B_thinking == [type |-> "thinking", thinking |-> "th", signature |-> "sig"]

B_redacted == [type |-> "redacted_thinking", data |-> "x"]

B_untyped == [text |-> "t"]

B_tool_use ==
  [type |-> "tool_use", id |-> "tu", name |-> "f", input |-> JStr("object"),
   cache_control |-> "ephemeral"]

B_tool_result ==
  [type |-> "tool_result", tool_use_id |-> "tu",
   content |-> JList(<<[type |-> "text", text |-> "r", cache_control |-> "ephemeral"]>>)]

\* the messages of a request: text only; thinking and redacted_thinking blocks,
\* one message holding nothing else; tool blocks and keys a strict backend rejects
Msgs_plain == <<[role |-> "user", content |-> JStr("hi")]>>

Msgs_thinking ==
  <<[role |-> "user", content |-> JList(<<B_text>>)],
    [role |-> "assistant", content |-> JList(<<B_thinking, B_text, B_redacted>>)],
    [role |-> "assistant", content |-> JList(<<B_thinking>>)]>>

Msgs_tools ==
  <<[role |-> "assistant", content |-> JList(<<B_untyped, B_tool_use>>), id |-> "m1"],
    [role |-> "user", content |-> JList(<<B_tool_result>>)]>>

\* request bodies without their model
BodyShapes ==
  { [messages |-> Msgs_plain],
    [messages |-> Msgs_thinking, stream |-> TRUE, thinking |-> [type |-> "enabled"]],
    [messages |-> Msgs_thinking, stream |-> FALSE, thinking |-> [type |-> "enabled"],
     effort |-> "high"],
    [messages |-> Msgs_tools, metadata |-> [user_id |-> "u"], max_tokens |-> 16,
     system |-> JList(<<[type |-> "text", text |-> "s", cache_control |-> "ephemeral"]>>),
     tools |-> JList(<<[name |-> "f", input_schema |-> "schema",
                        cache_control |-> "ephemeral"]>>)] }

ProxyModels == {N_claude_sonnet, N_claude_haiku, N_claude_opus, N_gpt_4, N_sonnet_1m}

\* what request.body() holds: nothing, bytes json.loads rejects, JSON that is not
\* an object, and a JSON object
Bodies ==
  { [kind |-> k, json |-> EmptyObject] : k \in {"empty", "invalid", "nonobject"} }
  \cup { [kind |-> "object", json |-> sh] : sh \in BodyShapes }
  \cup { [kind |-> "object", json |-> SetKey(sh, "model", m)] :
           sh \in BodyShapes, m \in ProxyModels }

\* values of the anthropic-beta header: reasoning features among others, with
\* blanks around a comma; a reasoning feature alone; no reasoning feature
\* "oauth-2025,interleaved-thinking, effort-2025 ,context-1m"
H_mixed ==
  <<"o", "a", "u", "t", "h", "-", "2", "0", "2", "5", ",", "i", "n", "t", "e", "r", "l", "e", "a", "v", "e", "d", "-", "t", "h", "i", "n", "k", "i", "n", "g", ",", " ", "e", "f", "f", "o", "r", "t", "-", "2", "0", "2", "5", " ", ",", "c", "o", "n", "t", "e", "x", "t", "-", "1", "m">>
\* "Interleaved-Thinking"
H_thinking ==
  <<"I", "n", "t", "e", "r", "l", "e", "a", "v", "e", "d", "-", "T", "h", "i", "n", "k", "i", "n", "g">>
\* "context-1m, oauth-2025"
H_plain ==
  <<"c", "o", "n", "t", "e", "x", "t", "-", "1", "m", ",", " ", "o", "a", "u", "t", "h", "-", "2", "0", "2", "5">>

BetaHeaders == {H_mixed, H_thinking, H_plain, <<>>}

\* the bodies that are sent with an anthropic-beta header
BetaBodies ==
  { [kind |-> "object", json |-> [messages |-> Msgs_plain]] }
  \cup { [kind |-> "object", json |-> [messages |-> Msgs_plain, model |-> m]] :
           m \in ProxyModels }

\* requests without the two headers, requests with them, and requests with an
\* Authorization header of the client
ProxyRequests ==
  { [body |-> b, headers |-> EmptyObject] : b \in Bodies }
  \cup { [body |-> [kind |-> "object", json |-> [messages |-> Msgs_plain]],
          headers |-> SetKey(EmptyObject, "authorization", "Bearer client-key")],
         [body |-> [kind |-> "object",
                    json |-> [messages |-> Msgs_plain, model |-> N_claude_opus]],
          headers |-> SetKey(SetKey(EmptyObject, "anthropic-version", "2023-06-01"),
                             "authorization", "Bearer client-key")] }
  \cup { [body |-> b, headers |-> SetKey(SetKey(EmptyObject, "anthropic-version", "2023-06-01"),
                                         "anthropic-beta", h)] :
           b \in BetaBodies, h \in BetaHeaders }

\* what the token endpoint answers if it is asked: an error, or a token good
\* for the default hour
OAuthAnswers(n) ==
  { [status |-> "failed", data |-> EmptyObject],
    [status |-> "ok", data |-> [access_token |-> "token-" \o ToString(n)]] }

\* the JSON of an upstream response: content and usage
UpstreamJson ==
  { [content |-> <<B_thinking, B_text>>,
     usage |-> [input_tokens |-> JInt(10), output_tokens |-> JInt(5)]],
    [content |-> <<B_text>>],
    [content |-> <<B_redacted>>, usage |-> EmptyObject],
    [content |-> <<B_text>>, usage |-> [input_tokens |-> JNull, output_tokens |-> JInt(5)]],
    [content |-> <<B_tool_use>>, usage |-> [input_tokens |-> JInt(7)]],
    [content |-> <<>>, usage |-> [input_tokens |-> JInt(3), output_tokens |-> JNull]] }

\* what comes back from the POST to a backend: a 200 or a 201 with content, a
\* 400 or a 401 with an error object, or an exception of httpx
Replies ==
  { [kind |-> "response", status_code |-> c, json |-> j] : c \in {200, 201}, j \in UpstreamJson }
  \cup { [kind |-> "response", status_code |-> 400,
          json |-> [type |-> "error", error |-> [type |-> "invalid_request_error"]]],
         [kind |-> "response", status_code |-> 401,
          json |-> [type |-> "error", error |-> [type |-> "authentication_error"]]] }
  \cup { [kind |-> k, status_code |-> 0, json |-> EmptyObject] :
           k \in {"read_timeout", "connect_timeout", "connect_error"} }

\* environments and configurations: native Anthropic only; the two bridges; the
\* keyed backends; glm; providers whose credentials are missing; and copilot and
\* glm with a Claude model selected for the tier
ProxySetups ==
  { [env |-> QuietEnv,
     cfg |-> [DefaultConfig EXCEPT !.sonnet_provider = "anthropic",
                !.haiku_provider = "anthropic", !.opus_provider = "anthropic"]],
    [env |-> MakeEnv(TRUE, TRUE, None, GlmNone, None, None, Unset),
     cfg |-> [DefaultConfig EXCEPT !.sonnet_provider = "antigravity",
                !.haiku_provider = "antigravity", !.opus_provider = "copilot"]],
    [env |-> MakeEnv(FALSE, FALSE, "or-key", GlmNone, "custom-key",
                     "https://custom.example", Unset),
     cfg |-> [DefaultConfig EXCEPT !.sonnet_provider = "custom",
                !.haiku_provider = "openrouter", !.opus_provider = "openrouter"]],
    [env |-> MakeEnv(FALSE, FALSE, None, GlmAll, None, None, Unset),
     cfg |-> [DefaultConfig EXCEPT !.sonnet_provider = "glm",
                !.haiku_provider = "zai", !.opus_provider = "anthropic"]],
    [env |-> QuietEnv,
     cfg |-> [DefaultConfig EXCEPT !.sonnet_provider = "openrouter",
                !.haiku_provider = "glm", !.opus_provider = "custom"]],
    [env |-> MakeEnv(FALSE, TRUE, None, GlmAll, None, None, Unset),
     cfg |-> [DefaultConfig EXCEPT !.sonnet_provider = "copilot",
                !.haiku_provider = "glm", !.opus_provider = "zai",
                !.sonnet_model = N_claude_sonnet, !.opus_model = N_claude_sonnet]] }

\* the credentials file: missing, a token good for longer than the buffer, and
\* an expired token with a refresh token
ProxyCreds ==
  { NoCredsFile("absent"),
    CredsFile("ok", "token-0", "refresh-0", StartTime + buffer_ms + 1000),
    CredsFile("ok", "token-0", "refresh-0", StartTime - 1000) }

\* where every tier goes to Anthropic, also a credentials file that is not JSON
InitProxy ==
  /\ \E setup \in ProxySetups :
       /\ env = setup.env /\ runtime_config = setup.cfg
       /\ creds \in ProxyCreds
                    \cup IF setup.cfg.opus_provider = "anthropic" /\ setup.env = QuietEnv
                         THEN {NoCredsFile("corrupt")} ELSE {}
  /\ rt = [model |-> <<>>, result |-> None, done |-> TRUE]
  /\ InitOAuthIdle
  /\ InitTrackerIdle
  /\ InitProxyIdle
  /\ InitAuthIdle
  /\ InitConfigIdle
  /\ InitSanitizeIdle
  /\ InitStoreIdle
  /\ InitLockIdle
  /\ InitStopIdle

NextProxy ==
  \/ \E request \in ProxyRequests : \E answer \in OAuthAnswers(Len(posts)) :
       MessagesEndpoint(request, answer)
  \/ \E request \in ProxyRequests : \E answer \in OAuthAnswers(Len(posts)) :
       CountTokensEndpoint(request, answer)
  \/ \E reply \in Replies : ProxyToAntigravity(reply)
  \/ \E reply \in Replies : ProxyToCopilot(reply)
  \/ \E reply \in Replies : ProxyToOpenrouter(reply)
  \/ \E reply \in Replies : ProxyToCustom(reply)
  \/ \E reply \in Replies : ProxyDirect(reply)
  \/ ProxyDone

SpecProxy ==
  InitProxy /\ [][NextProxy /\ UNCHANGED <<env, runtime_config, rt, now,
                                           oauth_refresh_lock, th, ticks, mw,
                                           config_file, cf, sz, tk, lk, agp>>]_vars

(***************************************************************************)
(* Claims about the dispatcher.                                            *)
(***************************************************************************)
\* the router turned the request away
RouterMisconfigured ==
  DOMAIN px.route # {} /\ px.route.provider_type = "misconfigured"

\* the response is the local 503 configuration_error
Is503 ==
  px.calls = <<>> /\ px.status_code = 503 /\ px.error_type = "configuration_error"

\* the response is the 500 of an exception raised before the router was asked
Is500BeforeDispatch ==
  /\ px.calls = <<>> /\ px.status_code = 500 /\ px.error_type = "internal_error"
  /\ px.body.kind \in {"invalid", "nonobject"}

NoThinkingBlocks(body_json) ==
  "messages" \in DOMAIN body_json
  => \A i \in DOMAIN body_json.messages :
       IsListAt(body_json.messages[i], "content")
       => \A j \in DOMAIN body_json.messages[i].content.list :
            Get(body_json.messages[i].content.list[j], "type", None)
              \notin {"thinking", "redacted_thinking"}

\* C4: no thinking block leaves the proxy. The body proxy_request sends to a
\* backend, for messages and for messages/count_tokens, holds no block of type
\* thinking or redacted_thinking in the list content of any message.
C4_NoThinkingOutbound ==
  Len(px.calls) > 0 => NoThinkingBlocks(px.body_json)

\* a body whose messages held thinking and redacted_thinking blocks is on its way
\* to a backend: the blocks are gone, the text block is kept, and the message
\* that held one thinking block has an empty content
C4_Witness ==
  /\ px.pc = "upstream"
  /\ px.body.kind = "object"
  /\ px.body.json.messages = Msgs_thinking
  /\ ~NoThinkingBlocks(px.body.json)
  /\ px.body_json.messages[2].content.list = <<B_text>>
  /\ px.body_json.messages[3].content.list = <<>>

\* no block of the content is a thinking block
NoThinkingContent(content) ==
  \A i \in DOMAIN content :
    Get(content[i], "type", None) \notin {"thinking", "redacted_thinking"}

\* C5: when the upstream was native Anthropic and answered 200, the response
\* returned to the client, buffered or streamed, holds no content block of type
\* thinking or redacted_thinking.
C5_NoThinkingInResponse ==
  (px.pc = "done" /\ px.backend = "anthropic" /\ px.upstream.kind = "response"
     /\ px.upstream.status_code = 200)
  => NoThinkingContent(px.content)

\* what does hold: the buffered 200 of native Anthropic is filtered
C5_BufferedFiltered ==
  (px.pc = "done" /\ px.backend = "anthropic" /\ px.upstream.kind = "response"
     /\ px.upstream.status_code = 200 /\ ~px.stream)
  => NoThinkingContent(px.content)

\* the UsageRecords appended to history since the request arrived
AppendedRecords ==
  IF /\ Len(data.history) >= Len(px.history_before)
     /\ SubSeq(data.history, 1, Len(px.history_before)) = px.history_before
  THEN Len(data.history) - Len(px.history_before)
  ELSE -1

\* the upstream answered and its JSON reports a usage object that is not empty
ReportsUsage ==
  /\ px.upstream.kind = "response"
  /\ "usage" \in DOMAIN px.upstream.json
  /\ DOMAIN px.upstream.json.usage # {}

\* the request ended in an error: no answer from the upstream, or a status that
\* is not 2xx
ErrorResponse ==
  px.calls # <<>> /\ (px.upstream.kind # "response"
                      \/ px.upstream.status_code < 200 \/ px.upstream.status_code >= 300)

\* C8: for every backend, after a non-error buffered response whose JSON reports
\* a non-empty usage object exactly one UsageRecord has been appended for the
\* request; after an error response or a misconfiguration none has.
C8_ExactlyOneRecord ==
  px.pc = "done"
  => /\ (px.calls # <<>> /\ ~px.stream /\ ~ErrorResponse /\ ReportsUsage)
          => AppendedRecords = 1
     /\ (ErrorResponse \/ Is503) => AppendedRecords = 0

\* what does hold: a buffered 200 whose usage holds numbers appends one record,
\* a status of 400 or more, an exception and a misconfiguration none
C8_On200WithNumbers ==
  px.pc = "done"
  => /\ (/\ px.calls # <<>> /\ ~px.stream /\ ReportsUsage
         /\ px.upstream.status_code = 200
         /\ IsNumber(Get(px.upstream.json.usage, "input_tokens", JInt(0)))
         /\ IsNumber(Get(px.upstream.json.usage, "output_tokens", JInt(0))))
          => AppendedRecords = 1
     /\ (\/ Is503
         \/ px.calls # <<>> /\ (px.upstream.kind # "response"
                                \/ px.upstream.status_code >= 400))
          => AppendedRecords = 0

(***************************************************************************)
(* More claims about the router.                                           *)
(***************************************************************************)
\* C12: every incoming model name is classified into one of the three tiers, a
\* name no rule matches into Haiku: the tier get_provider_config returns is
\* Haiku, Sonnet or Opus and never a fourth value.
C12_ThreeTiersOnly ==
  rt.done => rt.result.tier \in {"Haiku", "Sonnet", "Opus"}

\* what does hold: a fourth value is returned only for a name no rule matches,
\* and only together with the backend anthropic
C12_FourthValueOnlyUnknown ==
  (rt.done /\ rt.result.tier \notin {"Haiku", "Sonnet", "Opus"})
  => /\ rt.result.tier = "Unknown"
     /\ DetectTier(rt.model) = "Unknown"
     /\ rt.result.provider_type = "anthropic"

(***************************************************************************)
(* POST /config: handlers that update RuntimeConfig while requests are     *)
(* routed.                                                                 *)
(***************************************************************************)
\* the JSON objects POSTed to /config: valid updates, updates that name a
\* provider that is not defined next to valid keys, and a key that is ignored
ConfigUpdates ==
  { [sonnet_provider |-> "glm"],
    [haiku_provider |-> "bogus", sonnet_model |-> N_gpt_4],
    [sonnet_provider |-> "openrouter", opus_provider |-> "nope", opus_model |-> N_glm_47],
    [opus_model |-> N_glm_47, opus_provider |-> "zai", theme |-> "dark"],
    [sonnet_model |-> N_gpt_4, haiku_provider |-> "anthropic"] }

\* what request.body() holds
ConfigBodies ==
  { [kind |-> k, json |-> EmptyObject] : k \in {"empty", "nonobject"} }
  \cup { [kind |-> "object", json |-> u] : u \in ConfigUpdates }

\* how the write of config.json ends
SaveOutcomes == {"written", "open_failed", "dump_failed"}

\* the model names of the requests routed meanwhile
ConfigModels == {N_gpt_4, N_glm_47, N_gemini_3_flash}

\* an environment in which every backend has what it needs
FullEnv ==
  MakeEnv(TRUE, TRUE, "or-key", GlmAll, "custom-key", "https://custom.example", Unset)

InitConfig ==
  /\ env = FullEnv
  /\ runtime_config = DefaultConfig
  /\ rt = [model |-> <<>>, result |-> None, done |-> FALSE, config |-> DefaultConfig]
  /\ InitOAuthIdle
  /\ creds = NoCredsFile("absent")
  /\ InitTrackerIdle
  /\ InitProxyIdle
  /\ InitAuthIdle
  /\ InitConfigIdle
  /\ InitSanitizeIdle
  /\ InitStoreIdle
  /\ InitLockIdle
  /\ InitStopIdle

NextConfig ==
  \/ \E h \in ConfigHandlers : \E body \in ConfigBodies :
       ConfigPost(h, body) /\ UNCHANGED rt
  \/ \E h \in ConfigHandlers : \E outcome \in SaveOutcomes :
       update_config_endpoint(h, outcome) /\ UNCHANGED rt
  \/ \E h \in ConfigHandlers : ConfigDone(h) /\ UNCHANGED rt
  \/ \E model \in ConfigModels : GetProviderConfig(model)

SpecConfig ==
  InitConfig /\ [][NextConfig /\ UNCHANGED <<env, oauthVars, trackerVars, proxyVars,
                                            authVars, sanitizeVars, storeVars, lockVars, stopVars>>]_vars

(***************************************************************************)
(* Claims about POST /config.                                              *)
(***************************************************************************)
\* the backendModelName RuntimeConfig stores for a tier
ConfiguredModel(cfg, tier) ==
  CASE tier = "Sonnet" -> cfg.sonnet_model
    [] tier = "Haiku" -> cfg.haiku_model
    [] tier = "Opus" -> cfg.opus_model

\* C11: exact match wins first. A model name equal to the backendModelName the
\* current RuntimeConfig stores for a tier, and for no other tier, is classified
\* as that tier before any substring or prefix rule is considered, also after
\* POST /config has changed the stored names.
C11_ExactMatchFirst ==
  rt.done =>
    \A tier \in {"Haiku", "Sonnet", "Opus"} :
      (/\ rt.model = ConfiguredModel(rt.config, tier)
       /\ \A other \in {"Haiku", "Sonnet", "Opus"} \ {tier} :
            rt.model # ConfiguredModel(rt.config, other))
      => rt.result.tier = tier

\* what does hold: the names the exact-match rule knows are those read from the
\* environment at import, whatever RuntimeConfig stores
C11_ImportTimeNamesOnly ==
  rt.done =>
    /\ rt.model \in {ZAI_HAIKU_MODEL, ANTIGRAVITY_HAIKU_MODEL} => rt.result.tier = "Haiku"
    /\ rt.result.tier = ClassifiedTier(rt.model) \/ rt.result.tier = "Unknown"

\* the response of a handler of POST /config reports success
ConfigSuccess(h) == cf[h].pc = "done" /\ cf[h].status_code = 200

\* C18: POST /config is atomic and persisted. When a handler has returned
\* success, RuntimeConfig is what it was before with every accepted key of the
\* request written in one step, and config.json holds exactly that RuntimeConfig,
\* also when several updates interleave.
C18_AtomicAndPersisted ==
  \A h \in ConfigHandlers :
    ConfigSuccess(h) =>
      /\ \A key \in DOMAIN cf[h].config_after \ {"last_updated"} :
           cf[h].config_after[key] =
             IF key \in DOMAIN cf[h].body.json
                /\ key \in {"sonnet_provider", "haiku_provider", "opus_provider",
                            "sonnet_model", "haiku_model", "opus_model"}
             THEN cf[h].body.json[key]
             ELSE cf[h].config_before[key]
      /\ cf[h].file_after.state = "ok"
      /\ cf[h].file_after.content = cf[h].config_after

\* what does hold: the accepted keys of a request are applied in one step
C18_AtomicApply ==
  \A h \in ConfigHandlers :
    ConfigSuccess(h) =>
      \A key \in DOMAIN cf[h].config_after \ {"last_updated"} :
        cf[h].config_after[key] =
          IF key \in DOMAIN cf[h].body.json
             /\ key \in {"sonnet_provider", "haiku_provider", "opus_provider",
                         "sonnet_model", "haiku_model", "opus_model"}
          THEN cf[h].body.json[key]
          ELSE cf[h].config_before[key]

\* what does hold: config.json holds the new RuntimeConfig unless its write failed
C18_PersistedUnlessWriteFails ==
  \A h \in ConfigHandlers :
    ConfigSuccess(h) =>
      \/ cf[h].file_after = [state |-> "ok", content |-> cf[h].config_after]
      \/ cf[h].file_after = cf[h].file_before
      \/ cf[h].file_after.state = "partial"

\* the request names, for some tier, a provider that is not a backend type
NamesUndefinedProvider(updates) ==
  \E key \in {"sonnet_provider", "haiku_provider", "opus_provider"} :
    /\ key \in DOMAIN updates
    /\ updates[key] \notin {"antigravity", "zai", "glm", "anthropic", "copilot",
                            "openrouter", "custom"}

\* C19: a POST /config that names, for any tier, a provider that is not a defined
\* backend type is answered 400 and none of its keys is applied: RuntimeConfig,
\* last_updated included, and config.json are what they were, also when the
\* other keys of the request are valid.
C19_InvalidProviderRejected ==
  \A h \in ConfigHandlers :
    (cf[h].pc = "done" /\ cf[h].body.kind = "object"
       /\ NamesUndefinedProvider(cf[h].body.json))
    => /\ cf[h].status_code = 400
       /\ cf[h].config_after = cf[h].config_before
       /\ cf[h].file_after = cf[h].file_before

\* a request with a valid sonnet_model and an undefined haiku_provider has been
\* answered 400 after an earlier update had succeeded, and RuntimeConfig keeps
\* the sonnet_model and the last_updated it had
C19_Witness ==
  \E h \in ConfigHandlers :
    /\ cf[h].pc = "done"
    /\ cf[h].body.json = [haiku_provider |-> "bogus", sonnet_model |-> N_gpt_4]
    /\ cf[h].status_code = 400
    /\ runtime_config = cf[h].config_before
    /\ runtime_config.sonnet_provider = "glm"
    /\ runtime_config.sonnet_model = ANTIGRAVITY_SONNET_MODEL
    /\ config_file = cf[h].file_before

(***************************************************************************)
(* More claims about the dispatcher.                                       *)
(***************************************************************************)
\* the model name the request came with
IncomingModel == Get(ParsedBody(px.body), "model", DEFAULT_REQUEST_MODEL)

\* C13: the outbound model rule. When the backend chosen for a request is
\* anthropic, the model of the body sent is the incoming model name verbatim; for
\* every other backend and every tier it is the backendModelName RuntimeConfig
\* stores for the tier of the request.
C13_OutboundModelRule ==
  Len(px.calls) > 0 =>
    IF px.backend = "anthropic"
    THEN px.body_json.model = IncomingModel
    ELSE px.body_json.model = ConfiguredModel(runtime_config, ClassifiedTier(IncomingModel))

\* what does hold: the bridges and glm send the name RuntimeConfig stores (but
\* copilot for Opus), anthropic the incoming name for a name some rule matches,
\* both without the suffix [1m]
C13_ConfigNameForBridgesAndGlm ==
  Len(px.calls) > 0 =>
    /\ (px.backend \in {"antigravity", "zai"}
          \/ (px.backend = "copilot" /\ px.route.tier # "Opus"))
       => px.body_json.model =
            StripContextSuffix(ConfiguredModel(runtime_config, ClassifiedTier(IncomingModel)))
    /\ (px.backend = "anthropic" /\ DetectTier(IncomingModel) # "Unknown")
       => px.body_json.model = StripContextSuffix(IncomingModel)

\* C14: when the router returns misconfigured, proxy_request answers 503 with
\* error.type configuration_error, contacts no backend, asks for no OAuth token
\* and appends no UsageRecord; the request ends there.
C14_MisconfiguredIs503 ==
  RouterMisconfigured =>
    /\ px.pc = "done"
    /\ px.status_code = 503 /\ px.kind = "json" /\ px.error_type = "configuration_error"
    /\ px.calls = <<>>
    /\ px.token_calls = 0 /\ px.oauth_token = None
    /\ AppendedRecords = 0

\* a request for an opus model, whose provider custom has neither key nor URL,
\* has been answered 503 while an expired token with a refresh token was on disk
C14_Witness ==
  /\ px.pc = "done" /\ px.reached
  /\ IncomingModel = N_claude_opus
  /\ runtime_config.opus_provider = "custom"
  /\ ~Truthy(env.CUSTOM_PROVIDER_API_KEY)
  /\ RouterMisconfigured
  /\ px.status_code = 503
  /\ creds.file = "ok" /\ creds.expiresAt < now /\ creds.refreshToken # None
  /\ posts = <<>>

\* C20: POST /v1/messages/count_tokens is forwarded upstream only when the
\* target configured for the tier of the request is native Anthropic; for every
\* other configured target, with or without its prerequisites, the response is
\* 501 and nothing is forwarded.
C20_CountTokensOnlyAnthropic ==
  (px.endpoint = "messages/count_tokens" /\ px.body.kind \in {"empty", "object"}) =>
    LET configured == ConfiguredProvider(runtime_config, ClassifiedTier(IncomingModel))
    IN /\ px.calls # <<>> => configured = "anthropic"
       /\ (px.pc = "done" /\ configured # "anthropic")
          => px.status_code = 501 /\ px.calls = <<>>

\* what does hold: count_tokens is forwarded to no backend but Anthropic, and is
\* answered 501 exactly when the router returned an API key or a base URL
C20_NoKeyNoUrl ==
  (px.endpoint = "messages/count_tokens" /\ px.body.kind \in {"empty", "object"}) =>
    /\ px.calls # <<>> => px.calls = <<"anthropic">>
    /\ px.pc = "done"
       => ((px.status_code = 501 /\ px.calls = <<>>)
             <=> (Truthy(px.route.api_key) \/ Truthy(px.route.base_url)))

(***************************************************************************)
(* The sanitizer alone: a body is sanitized, and its result once more.     *)
(***************************************************************************)
\* content blocks with keys outside their lists
SB_text == [type |-> "text", text |-> "t", cache_control |-> "ephemeral"]

SB_tool_use_invalid ==
  [type |-> "tool_use", id |-> "tu", name |-> "f", input |-> JStr("invalid"),
   caller |-> "direct"]

SB_tool_use_dict ==
  [type |-> "tool_use", id |-> "tu", name |-> "f", input |-> [dict |-> "parsed"]]

SB_tool_result_str ==
  [type |-> "tool_result", tool_use_id |-> "tu", content |-> JStr("ok"),
   is_error |-> FALSE, cache_control |-> "ephemeral"]

\* a tool_result whose list holds a string and an image
SB_tool_result_mixed ==
  [type |-> "tool_result", tool_use_id |-> "tu",
   content |-> JList(<<JStr("plain"),
                       [type |-> "image", source |-> "data", cache_control |-> "ephemeral"]>>)]

\* a tool_result whose list holds a tool_result with a list of its own
SB_tool_result_deep ==
  [type |-> "tool_result", tool_use_id |-> "tu",
   content |-> JList(<<[type |-> "tool_result", tool_use_id |-> "inner",
                        citations |-> "c",
                        content |-> JList(<<[type |-> "text", text |-> "r",
                                             cache_control |-> "ephemeral"]>>)]>>)]

SB_image == [type |-> "image", source |-> "data", cache_control |-> "ephemeral"]

SanitizeBlocks ==
  {SB_text, B_untyped, B_tool_use, SB_tool_use_invalid, SB_tool_use_dict,
   B_tool_result, SB_tool_result_str, SB_tool_result_mixed, SB_tool_result_deep,
   SB_image, B_thinking}

\* messages: a string content, one block of every kind, and two blocks
SanitizeMessages ==
  { [role |-> "user", content |-> JStr("hi")],
    [role |-> "assistant", content |-> JStr("ok"), name |-> "n"],
    [role |-> "user", content |-> JList(<<>>)] }
  \cup { [role |-> "assistant", content |-> JList(<<b>>), id |-> "m1"] :
           b \in SanitizeBlocks }
  \cup { [role |-> "user", content |-> JList(<<b, c>>)] :
           b \in {SB_text, B_tool_use}, c \in {SB_tool_result_deep, B_untyped} }

\* what a body holds next to its messages
SanitizeTops ==
  { [model |-> N_claude_sonnet, max_tokens |-> 16],
    [model |-> N_claude_haiku, stream |-> TRUE, metadata |-> [user_id |-> "u"],
     thinking |-> [type |-> "enabled"],
     system |-> JList(<<[type |-> "text", text |-> "s", cache_control |-> "ephemeral"]>>),
     tools |-> JList(<<[name |-> "f", input_schema |-> "schema",
                        cache_control |-> "ephemeral"]>>)],
    [system |-> JStr("be brief"), betas |-> "b", tools |-> JList(<<>>)] }

SanitizeBodies ==
  SanitizeTops
  \cup { SetKey(top, "messages", ms) :
           top \in SanitizeTops,
           ms \in UNION { [1..k -> SanitizeMessages] : k \in 0..MaxMessages } }

InitSanitize ==
  /\ InitRouteIdle
  /\ InitOAuthIdle
  /\ creds = NoCredsFile("absent")
  /\ InitTrackerIdle
  /\ InitProxyIdle
  /\ InitAuthIdle
  /\ InitConfigIdle
  /\ InitStoreIdle
  /\ InitLockIdle
  /\ InitStopIdle
  /\ \E body \in SanitizeBodies : sz = [IdleSanitizer EXCEPT !.pc = "input", !.body = body]

\* sanitize_for_custom is applied to the body
SanitizeOnce ==
  /\ sz.pc = "input"
  /\ sz' = [sz EXCEPT !.pc = "once", !.once = sanitize_for_custom(sz.body)]

\* sanitize_for_custom is applied to its own result
SanitizeTwice ==
  /\ sz.pc = "once"
  /\ sz' = [sz EXCEPT !.pc = "twice", !.twice = sanitize_for_custom(sz.once)]

NextSanitize == SanitizeOnce \/ SanitizeTwice

SpecSanitize ==
  InitSanitize /\ [][NextSanitize /\ UNCHANGED <<routeVars, oauthVars, trackerVars,
                                                proxyVars, authVars, configVars,
                                                storeVars, lockVars, stopVars>>]_vars

(***************************************************************************)
(* Claims about the sanitizer.                                             *)
(***************************************************************************)
\* C15: sanitization is idempotent. For every body, sanitizing the sanitized
\* body gives the same JSON.
C15_Idempotent ==
  sz.pc = "twice" => sz.twice = sz.once

\* a body whose first message holds a tool_use with a string input and a key
\* outside the list has been sanitized twice: the first pass changed it, the
\* second did not
C15_Witness ==
  /\ sz.pc = "twice"
  /\ "messages" \in DOMAIN sz.body /\ Len(sz.body.messages) = 2
  /\ IsListAt(sz.body.messages[1], "content")
  /\ Len(sz.body.messages[1].content.list) = 2
  /\ sz.body.messages[1].content.list[1] = B_tool_use
  /\ sz.once # sz.body
  /\ sz.once.messages[1].content.list[1].input = [dict |-> "parsed"]
  /\ sz.twice = sz.once

\* C16: sanitization preserves messages. The sanitized body has as many
\* messages as the input, in the same order, each with the role and the number
\* of content blocks it had, the blocks in their order; a content that is not a
\* list is unchanged.
C16_MessagesPreserved ==
  (sz.pc \in {"once", "twice"} /\ "messages" \in DOMAIN sz.body) =>
    /\ "messages" \in DOMAIN sz.once
    /\ Len(sz.once.messages) = Len(sz.body.messages)
    /\ \A i \in DOMAIN sz.body.messages :
         LET before == sz.body.messages[i]
             after == sz.once.messages[i]
         IN /\ Get(after, "role", None) = Get(before, "role", None)
            /\ "content" \in DOMAIN after
            /\ IF IsListAt(before, "content")
               THEN /\ IsListAt(after, "content")
                    /\ Len(after.content.list) = Len(before.content.list)
                    /\ \A j \in DOMAIN before.content.list :
                         Get(after.content.list[j], "type", None)
                           = Get(before.content.list[j], "type", None)
               ELSE after.content = before.content

\* a body of two messages, the first with two blocks, has been sanitized and
\* is not what it was
C16_Witness ==
  /\ sz.pc = "once"
  /\ "messages" \in DOMAIN sz.body /\ Len(sz.body.messages) = 2
  /\ sz.body.messages[1].role = "user" /\ sz.body.messages[2].role = "assistant"
  /\ IsListAt(sz.body.messages[1], "content")
  /\ Len(sz.body.messages[1].content.list) = 2
  /\ Len(sz.once.messages[1].content.list) = 2
  /\ sz.once.messages[2].role = "assistant"
  /\ sz.once # sz.body

\* the keys of every object of a list are within the given list of keys
KeysWithin(j, allowed) ==
  \A i \in DOMAIN j.list : DOMAIN j.list[i] \subseteq allowed

\* a content block keeps only the keys of its type, and so does every block
\* nested in the content list of a tool_result, at every depth
RECURSIVE BlockWhitelisted(_)
BlockWhitelisted(block) ==
  /\ DOMAIN block \subseteq
       (CASE Get(block, "type", "") = "text" -> {"type", "text"}
          [] Get(block, "type", "") = "tool_use" -> {"type", "id", "name", "input"}
          [] Get(block, "type", "") = "tool_result" ->
               {"type", "tool_use_id", "content", "is_error"}
          [] Get(block, "type", "") = "image" -> {"type", "source"}
          [] OTHER -> {"type"})
  /\ (Get(block, "type", "") = "tool_result" /\ IsListAt(block, "content"))
     => \A i \in DOMAIN block.content.list :
          IsDict(block.content.list[i]) => BlockWhitelisted(block.content.list[i])

\* the keys of the body, of its system blocks, tools and messages are within
\* their lists
OuterLevelsWhitelisted(body) ==
  /\ DOMAIN body \subseteq
       {"model", "messages", "system", "tools", "tool_choice", "max_tokens", "stream",
        "temperature", "top_p", "top_k", "stop_sequences"}
  /\ IsListAt(body, "system") => KeysWithin(body.system, {"type", "text"})
  /\ IsListAt(body, "tools")
     => KeysWithin(body.tools, {"name", "description", "input_schema", "type"})
  /\ "messages" \in DOMAIN body
     => \A i \in DOMAIN body.messages : DOMAIN body.messages[i] \subseteq {"role", "content"}

\* C17: after sanitization no key outside the lists remains at any level: the
\* keys of the body, of system blocks, of tools, of messages, of content blocks
\* by their type, and of every block nested in the content list of a
\* tool_result, at every depth of nesting.
C17_WhitelistEveryLevel ==
  sz.pc \in {"once", "twice"} =>
    /\ OuterLevelsWhitelisted(sz.once)
    /\ "messages" \in DOMAIN sz.once
       => \A i \in DOMAIN sz.once.messages :
            IsListAt(sz.once.messages[i], "content")
            => \A j \in DOMAIN sz.once.messages[i].content.list :
                 BlockWhitelisted(sz.once.messages[i].content.list[j])

\* what does hold: the lists are enforced down to the blocks directly inside the
\* content list of a tool_result that is a block of a message
C17_WhitelistToFirstNesting ==
  sz.pc \in {"once", "twice"} =>
    /\ OuterLevelsWhitelisted(sz.once)
    /\ "messages" \in DOMAIN sz.once
       => \A i \in DOMAIN sz.once.messages :
            IsListAt(sz.once.messages[i], "content")
            => \A j \in DOMAIN sz.once.messages[i].content.list :
                 LET block == sz.once.messages[i].content.list[j]
                 IN /\ DOMAIN block \subseteq ALLOWED_BLOCK_KEYS(Get(block, "type", ""))
                    /\ (Get(block, "type", "") = "tool_result" /\ IsListAt(block, "content"))
                       => \A k \in DOMAIN block.content.list :
                            LET sub == block.content.list[k]
                            IN IsDict(sub)
                               => DOMAIN sub \subseteq ALLOWED_BLOCK_KEYS(Get(sub, "type", ""))

(***************************************************************************)
(* Claims about upstream timeouts.                                         *)
(***************************************************************************)
\* the POST to the backend ended in a timeout of httpx
TimedOut ==
  px.calls # <<>> /\ px.upstream.kind \in {"read_timeout", "connect_timeout"}

\* C21: for every backend (anthropic, glm, gemini_bridge, copilot_bridge,
\* openrouter, custom) a timeout of the POST to the backend, whatever its kind,
\* is answered with 504 and never with 500.
C21_TimeoutIs504 ==
  (px.pc = "done" /\ TimedOut) => px.status_code = 504

\* what does hold: the copilot, openrouter and custom adapters answer every
\* timeout with 504, the Antigravity adapter a read timeout only; every other
\* timeout, and every timeout of a POST proxy_request makes itself, is a 500
C21_TimeoutIs504WhereCaught ==
  (px.pc = "done" /\ TimedOut)
  => /\ px.status_code \in {500, 504}
     /\ px.status_code = 504
        <=> \/ px.backend \in {"copilot", "openrouter", "custom"}
            \/ px.backend = "antigravity" /\ px.upstream.kind = "read_timeout"

(***************************************************************************)
(* Claims about the reasoning parameters.                                  *)
(***************************************************************************)
\* the model name holds one of the four markers of a reasoning model
NamesReasoningModel(model) ==
  \E m \in {W_sonnet_3_7, W_sonnet_4_5, W_claude_3_7, W_opus_4_5} :
    Contains(Lower(model), m)

\* reasoning-capable as the claims define it: the backend is anthropic and the
\* outbound model name holds a marker
ReasoningCapable ==
  px.backend = "anthropic" /\ NamesReasoningModel(px.translated_model)

\* the body holds neither of the two reasoning parameters
NoReasoningKeys(body_json) ==
  "thinking" \notin DOMAIN body_json /\ "effort" \notin DOMAIN body_json

\* the reasoning parameters of the request are those of the outbound body
ReasoningKeysKept ==
  \A key \in {"thinking", "effort"} :
    key \in DOMAIN ParsedBody(px.body)
    => key \in DOMAIN px.body_json /\ px.body_json[key] = ParsedBody(px.body)[key]

\* C22: proxy_request deletes the top-level keys thinking and effort from the
\* outbound body if and only if the target is not reasoning-capable (backend
\* anthropic and a marker in the outbound model name); for every backend other
\* than anthropic the outbound body carries neither key, whatever the model.
C22_StripUnlessAnthropicReasoning ==
  px.calls # <<>>
  => /\ ~ReasoningCapable => NoReasoningKeys(px.body_json)
     /\ ReasoningCapable => ReasoningKeysKept
     /\ px.backend # "anthropic" => NoReasoningKeys(px.body_json)

\* what does hold: the keys are deleted if and only if is_reasoning_model says
\* no, which it does for the Antigravity and the custom backend and for every
\* model name without a marker; copilot, openrouter and glm keep them for a name
\* with a marker
C22_StripUnlessReasoningModel ==
  px.calls # <<>>
  => /\ ~is_reasoning_model(px.route.translated_model, px.route.provider_type)
          => NoReasoningKeys(px.body_json)
     /\ is_reasoning_model(px.route.translated_model, px.route.provider_type)
          => ReasoningKeysKept
     /\ px.backend \in {"antigravity", "custom"} => NoReasoningKeys(px.body_json)

(***************************************************************************)
(* Claims about the anthropic-beta header.                                 *)
(***************************************************************************)
\* the features a header value names, in their order
BetaTokens(beta_header) ==
  SelectSeq(BetaParts(beta_header), LAMBDA part : part # <<>>)

\* the features of the request's header, and of the header sent to the backend
RequestBeta == BetaTokens(Get(px.headers, "anthropic-beta", <<>>))

OutboundBeta == BetaTokens(Get(px.target_headers, "anthropic-beta", <<>>))

\* the request brought an anthropic-beta header and was sent to a backend
SentWithBeta == px.calls # <<>> /\ "anthropic-beta" \in DOMAIN px.headers

\* C23: for every request sent to a target that is not reasoning-capable (every
\* backend other than anthropic, and anthropic with a model without a marker)
\* the anthropic-beta header sent to the backend holds no feature containing
\* 'thinking' or 'effort', and the other features of the request's header are
\* forwarded in their order.
C23_NoReasoningBeta ==
  (SentWithBeta /\ ~ReasoningCapable)
  => /\ \A i \in DOMAIN OutboundBeta : ~ReasoningFeature(OutboundBeta[i])
     /\ OutboundBeta = SelectSeq(RequestBeta, LAMBDA part : ~ReasoningFeature(part))

\* what does hold: the glm backend is sent the header as it came; every other
\* backend is sent the features in their order, without the reasoning features
\* unless is_reasoning_model accepts the outbound model name, which it never
\* does for the Antigravity and the custom backend
C23_FilteredUnlessReasoningModel ==
  SentWithBeta
  => IF px.backend = "zai"
     THEN px.target_headers["anthropic-beta"] = px.headers["anthropic-beta"]
     ELSE IF is_reasoning_model(px.translated_model, px.backend)
     THEN OutboundBeta = RequestBeta
     ELSE OutboundBeta = SelectSeq(RequestBeta, LAMBDA part : ~ReasoningFeature(part))

(***************************************************************************)
(* Claims about the repair of streamed tool inputs.                        *)
(***************************************************************************)
\* no tool_use block of the content has a string for its input
NoStringToolInput(content) ==
  \A i \in DOMAIN content :
    Get(content[i], "type", None) = "tool_use" => ~IsStrAt(content[i], "input")

\* the backend answered and its answer was passed on as a stream
StreamedFrom(backend) ==
  /\ px.pc = "done" /\ px.backend = backend /\ px.kind = "stream"
  /\ px.upstream.kind = "response"

\* C24: for the custom and for the gemini_bridge backend the body of every
\* streaming response passes through the SSE tool-input repair before it reaches
\* the client: no tool_use block delivered to the client has a string input.
C24_StreamRepaired ==
  (StreamedFrom("custom") \/ StreamedFrom("antigravity"))
  => NoStringToolInput(px.content)

\* what does hold: the stream of the custom backend is repaired; that of the
\* Antigravity bridge is passed on as it came
C24_CustomRepairedBridgeUntouched ==
  /\ StreamedFrom("custom")
     => px.content = fix_streaming_tool_inputs(ContentOf(px.upstream))
        /\ NoStringToolInput(px.content)
  /\ StreamedFrom("antigravity") => px.content = ContentOf(px.upstream)

(***************************************************************************)
(* The life of a usage tracker: construction on a storage file, calls of   *)
(* record_usage and reset_stats, and a second tracker constructed on the   *)
(* same file.                                                              *)
(***************************************************************************)
\* the document a tracker wrote after one record
PriorData ==
  record_usage(EmptyData, [state |-> "absent", content |-> EmptyData], JInt(7), JInt(3),
               "zai", N_glm_47, "Haiku", StartTime).data

\* the storage file the tracker is constructed on
StorageFiles ==
  { [state |-> "ok", content |-> PriorData],
    [state |-> "other_json", content |-> EmptyObject] }
  \cup { [state |-> st, content |-> EmptyData] :
           st \in {"absent", "unparseable", "partial", "undecodable", "unreadable"} }

\* the arguments of a call of record_usage: token counts as the upstream JSON
\* gave them, numbers or null
UsageCalls ==
  { [input_tokens |-> JInt(100), output_tokens |-> JInt(50), provider |-> "anthropic",
     model |-> N_claude_sonnet, tier |-> "Sonnet"],
    [input_tokens |-> JInt(7), output_tokens |-> JInt(3), provider |-> "zai",
     model |-> N_glm_47, tier |-> "Haiku"],
    [input_tokens |-> JNull, output_tokens |-> JInt(5), provider |-> "anthropic",
     model |-> N_claude_sonnet, tier |-> "Sonnet"] }

InitUsage ==
  /\ InitRouteIdle
  /\ InitOAuthIdle
  /\ creds = NoCredsFile("absent")
  /\ data = EmptyData
  /\ storage_file \in StorageFiles
  /\ recorded = <<>>
  /\ InitProxyIdle
  /\ InitAuthIdle
  /\ InitConfigIdle
  /\ InitSanitizeIdle
  /\ InitStoreIdle
  /\ InitLockIdle
  /\ InitStopIdle

NextUsage ==
  \/ \E decoding \in Decodings : TrackerConstruct(decoding)
  \/ \E a \in UsageCalls : \E outcome \in WriteOutcomes :
       TrackerRecordUsage(a.input_tokens, a.output_tokens, a.provider, a.model, a.tier,
                          outcome)
  \/ \E outcome \in WriteOutcomes : TrackerResetStats(outcome)
  \/ \E decoding \in Decodings : TrackerReload(decoding)

SpecUsage ==
  InitUsage /\ [][NextUsage /\ UNCHANGED <<routeVars, oauthVars, proxyVars, authVars,
                                          configVars, sanitizeVars, lockVars, stopVars>>]_vars

(***************************************************************************)
(* Claims about reset, reload and a corrupted storage file.                *)
(***************************************************************************)
\* a tracker constructed on the file now holds the empty state
ReloadsEmpty ==
  \A decoding \in Decodings :
    load_data(storage_file, decoding) = [raised |-> FALSE, data |-> EmptyData]

C26_RoundTrip ==
  (tk.last_op = "reload" /\ (tk.calls > 0 \/ tk.was_reset))
  => ~tk.reloaded.raised /\ tk.reloaded.data = data

\* what does hold: after a call of record_usage or reset_stats that returned
\* and whose write succeeded, a tracker constructed on the file holds what the
\* first tracker holds
C26_RoundTripAfterWrite ==
  (tk.last_op \in {"record_usage", "reset_stats"} /\ tk.outcome = "written")
  => \A decoding \in Decodings :
       load_data(storage_file, decoding) = [raised |-> FALSE, data |-> data]

\* the tracker was constructed on a file in one of these states
ConstructedOn(states) ==
  tk.pc # "new" /\ tk.constructed_on.state \in states

\* the construction did not fail and gave the empty state, and the calls of
\* record_usage with numbers made since, before any reset, returned and are
\* counted from zero
EmptyOnLoad ==
  /\ tk.pc = "ready"
  /\ (~tk.was_reset /\ tk.numeric)
     => /\ ~tk.any_raised
        /\ IsUsageDocument(data)
        /\ data.total_requests = tk.calls
        /\ Len(data.history) = tk.calls
        /\ tk.calls = 0 => data = EmptyData

\* C27: a corrupted storage file is treated as empty. Constructing a
\* TokenUsageTracker on a file whose content is not a well-formed usage document
\* does not fail and yields the empty state, and the record_usage calls that
\* follow succeed and count from zero.
C27_CorruptedIsEmpty ==
  ConstructedOn({"unparseable", "partial", "undecodable", "other_json"}) => EmptyOnLoad

\* what does hold: a file that is text json.load rejects, or that cannot be
\* opened, is treated as empty
C27_UnparseableIsEmpty ==
  ConstructedOn({"unparseable", "partial", "unreadable"}) => EmptyOnLoad

(***************************************************************************)
(* Claims about the order of the key locations.                            *)
(***************************************************************************)
\* the first of the four locations that is present on the request
FirstLocation(request) ==
  IF "key" \in DOMAIN request.query_params THEN "key"
  ELSE IF "x-api-key" \in DOMAIN request.headers THEN "x-api-key"
  ELSE IF "authorization" \in DOMAIN request.headers THEN "authorization"
  ELSE IF "x-proxy-key" \in DOMAIN request.headers THEN "x-proxy-key"
  ELSE None

\* the value without a leading "Bearer ", written in any letter case
BearerRemoved(auth) ==
  IF Len(auth) >= Len(P_Bearer) /\ Lower(SubSeq(auth, 1, Len(P_Bearer))) = P_bearer
  THEN SubSeq(auth, Len(P_Bearer) + 1, Len(auth))
  ELSE auth

\* the value found at a location that is present
ValueAt(request, location) ==
  CASE location = "key" -> request.query_params["key"]
    [] location = "authorization" -> BearerRemoved(request.headers["authorization"])
    [] OTHER -> request.headers[location]

\* the request was passed on to its handler
PassedOn == mw.pc = "call_next" \/ mw.handler_calls > 0

\* C28: first match wins. With a secret configured, on a path that is not
\* exempt, the candidate key is taken from the first location present on the
\* request in the order ?key=, x-api-key, Authorization (a leading "Bearer "
\* removed), x-proxy-key; the request is accepted if and only if that candidate
\* equals the secret, and later locations are not consulted.
C28_FirstMatchWins ==
  (TruthyOpt(env.PROXY_API_KEY) /\ mw.pc # "idle" /\ ~ExemptPath(mw.request.path))
  => /\ PassedOn
        <=> /\ FirstLocation(mw.request) # None
            /\ ValueAt(mw.request, FirstLocation(mw.request)) = env.PROXY_API_KEY.value
     /\ ~PassedOn => mw.status_code = 401

\* a request whose ?key= is wrong was answered 401 although its x-api-key,
\* Authorization and x-proxy-key headers all hold the secret
C28_Witness ==
  /\ TruthyOpt(env.PROXY_API_KEY)
  /\ mw.pc = "done" /\ mw.status_code = 401 /\ mw.handler_calls = 0
  /\ mw.request.path = "/v1/messages"
  /\ "key" \in DOMAIN mw.request.query_params
  /\ mw.request.query_params["key"] # env.PROXY_API_KEY.value
  /\ "x-api-key" \in DOMAIN mw.request.headers
  /\ mw.request.headers["x-api-key"] = env.PROXY_API_KEY.value
  /\ "authorization" \in DOMAIN mw.request.headers
  /\ mw.request.headers["authorization"] = P_Bearer \o env.PROXY_API_KEY.value
  /\ "x-proxy-key" \in DOMAIN mw.request.headers
  /\ mw.request.headers["x-proxy-key"] = env.PROXY_API_KEY.value

(***************************************************************************)
(* Claims about the cooldown and about a failed refresh.                   *)
(***************************************************************************)
\* the last POST to the token endpoint has ended and it failed
LastRefreshFailed ==
  Len(posts) > 0 /\ posts[Len(posts)].status = "failed"

\* The last POST failed no earlier than it began and no later than the last
\* millisecond of the second recorded for it: the milliseconds that have
\* passed since that failure lie between these two.
SinceLastRefreshAtLeast == now - (last_oauth_refresh_failure * 1000 + 999)

SinceLastRefreshAtMost == now - posts[Len(posts)].at

\* caller t, holding the lock, finds the stored token still expired or expiring
\* and decides what to do
DecidesUnderLock(t) ==
  /\ th[t].pc = "wait_lock" /\ th'[t].pc # "wait_lock"
  /\ ~AlreadyRefreshed(creds.expiresAt, current_time_ms_of(now))

\* caller t makes no POST and returns the stored access token
ReturnsStoredToken(t) ==
  /\ posts' = posts
  /\ th'[t].pc = "done" /\ th'[t].ret = creds.accessToken

\* caller t sends a POST to the token endpoint
AttemptsRefresh(t) ==
  /\ Len(posts') = Len(posts) + 1
  /\ th'[t].pc = "posting"

\* C29: cooldown. While fewer than 60 s have passed since the last failed
\* refresh, a call that finds the stored token still expired or expiring makes
\* no POST to the token endpoint and returns whatever access token is stored;
\* once 60 s have passed the next such call attempts a refresh again.
C29_Cooldown ==
  [][\A t \in Callers :
       (DecidesUnderLock(t) /\ LastRefreshFailed)
       => /\ SinceLastRefreshAtMost < OAUTH_REFRESH_COOLDOWN * 1000
               => ReturnsStoredToken(t)
          /\ SinceLastRefreshAtLeast >= OAUTH_REFRESH_COOLDOWN * 1000
               => AttemptsRefresh(t)]_vars

\* what does hold: the same with the two times taken in whole seconds of the
\* clock, as get_oauth_token takes them. A failure at 100.5 s is recorded as
\* 100, and a call at 160.0 s, 59.5 s later, sends a POST.
C29_CooldownInWholeSeconds ==
  [][\A t \in Callers :
       (DecidesUnderLock(t) /\ LastRefreshFailed)
       => IF current_time_sec_of(now) - last_oauth_refresh_failure
               < OAUTH_REFRESH_COOLDOWN
          THEN ReturnsStoredToken(t)
          ELSE AttemptsRefresh(t)]_vars

\* caller t learns that its POST to the token endpoint failed
RefreshFails(t) ==
  /\ th[t].pc = "posting" /\ th'[t].pc # "posting"
  /\ posts'[Len(posts)].status = "failed"

\* C30: when a refresh attempt fails (a status other than 200, or a network
\* error), get_oauth_token returns 'no token', records the time of the failure,
\* leaves the credentials file unchanged and releases the refresh lock; no
\* exception reaches the caller.
C30_FailedRefresh ==
  [][\A t \in Callers :
       RefreshFails(t)
       => /\ th'[t].pc = "done" /\ th'[t].ret = None
          /\ last_oauth_refresh_failure' = current_time_sec_of(now)
          /\ creds' = creds
          /\ oauth_refresh_lock = t /\ oauth_refresh_lock' = NoHolder]_vars

\* one caller's refresh failed and it returned 'no token'; the lock is free, the
\* failure is recorded, and the other caller, who had waited for the lock, took
\* it and returned the stored token
C30_Witness ==
  \E t \in Callers : \E u \in Callers :
    /\ t # u
    /\ th[t].pc = "done" /\ th[t].via = "refresh_failed" /\ th[t].ret = None
    /\ th[u].pc = "done" /\ th[u].via = "cooldown" /\ th[u].ret = "token-0"
    /\ oauth_refresh_lock = NoHolder
    /\ Len(posts) = 1 /\ posts[1].status = "failed"
    /\ last_oauth_refresh_failure >= current_time_sec_of(posts[1].at)
    /\ last_oauth_refresh_failure <= current_time_sec_of(now)
    /\ creds.accessToken = "token-0"

(***************************************************************************)
(* Claims about a successful refresh and about when a refresh is attempted. *)
(***************************************************************************)
\* caller t learns that its POST to the token endpoint was answered 200
RefreshSucceeds(t) ==
  /\ th[t].pc = "posting" /\ th'[t].pc # "posting"
  /\ posts'[Len(posts)].status = "ok"

\* the keys a refresh may change
RefreshedKeys == {"accessToken", "expiresAt", "refreshToken"}

\* C31: a successful refresh rewrites the credentials file changing only
\* accessToken, expiresAt (the clock the call read, plus expires_in * 1000) and,
\* only if the response provides one, refreshToken; every other key of the
\* document and of the claudeAiOauth object is preserved, the recorded failure
\* time is cleared, and the returned token is the one written to the file.
C31_RefreshRewrites ==
  [][\A t \in Callers :
       RefreshSucceeds(t)
       => /\ DOMAIN creds' = DOMAIN creds
          /\ \A k \in DOMAIN creds \ RefreshedKeys : creds'[k] = creds[k]
          /\ \E r \in TokenResponses(Len(posts)) :
               /\ creds'.accessToken = r.access_token
               /\ creds'.expiresAt = th[t].current_time_ms +
                    (IF "expires_in" \in DOMAIN r THEN r.expires_in
                     ELSE DEFAULT_EXPIRES_IN) * 1000
               /\ creds'.refreshToken = IF "refresh_token" \in DOMAIN r
                                        THEN r.refresh_token ELSE creds.refreshToken
          /\ last_oauth_refresh_failure' = 0
          /\ th'[t].pc = "done" /\ th'[t].ret = creds'.accessToken]_vars

\* a refresh failed, and a minute later a second one succeeded: the new token
\* is in the file and was returned, the response had no refresh token and the
\* old one is kept, the other keys are those of the start, and no failure is
\* recorded any more
C31_Witness ==
  \E t \in Callers :
    /\ Len(posts) = 2 /\ posts[1].status = "failed" /\ posts[2].status = "ok"
    /\ th[t].pc = "done" /\ th[t].via = "refreshed" /\ th[t].ret = "token-2"
    /\ creds.accessToken = "token-2" /\ creds.refreshToken = "refresh-0"
    /\ creds.expiresAt = posts[2].at + DEFAULT_EXPIRES_IN * 1000
    /\ creds.scopes = "user:inference" /\ creds.mcpOAuth = "other-tool"
    /\ last_oauth_refresh_failure = 0


\* caller t returns from get_oauth_token without having sent a POST, on a
\* credentials file that parses and holds a refresh token
ReturnsWithoutRefresh(t) ==
  /\ th[t].pc \in {"idle", "wait_lock"} /\ th'[t].pc = "done"
  /\ creds.file = "ok" /\ creds.refreshToken # None

\* more than 5 minutes remain until expiresAt
MoreThanBufferRemains == creds.expiresAt - now > buffer_ms

\* a refresh failed within the last 60 s: the second recorded for the failure
\* is less than 60 whole seconds back
FailedWithinCooldown ==
  current_time_sec_of(now) - last_oauth_refresh_failure < OAUTH_REFRESH_COOLDOWN

\* C32: get_oauth_token returns the stored token without attempting a refresh
\* only when more than 5 minutes remain until expiresAt, or when a refresh failed
\* within the last 60 s; in every other state with a credentials file and a
\* refresh token, a missing or zero expiresAt included, it attempts a refresh.
C32_RefreshUnlessFresh ==
  [][\A t \in Callers :
       ReturnsWithoutRefresh(t)
       => MoreThanBufferRemains \/ FailedWithinCooldown]_vars

\* what does hold: the same, except that a file whose expiresAt is missing or
\* zero is never refreshed; its stored token is returned
C32_RefreshUnlessFreshOrNoExpiry ==
  [][\A t \in Callers :
       ReturnsWithoutRefresh(t)
       => /\ MoreThanBufferRemains \/ FailedWithinCooldown \/ creds.expiresAt = 0
          /\ th'[t].ret = creds.accessToken
          /\ posts' = posts]_vars

(***************************************************************************)
(* core/config.py config_lock: who touches runtime_config, and when. Every *)
(* handler is a coroutine of one event loop: between two awaits it runs    *)
(* alone. A handler is the sequence of its steps on runtime_config.        *)
(***************************************************************************)
\* one step of a handler: what it does, on which keys, where in the source,
\* and whether it is taken only when the router answered 'misconfigured'
Stp(k, keys, site, when) == [k |-> k, keys |-> keys, site |-> site, when |-> when]

\* with config_lock: <body>
LockedBlock(site, body, when) ==
  <<Stp("acquire", {}, site, when)>> \o body \o <<Stp("release", {}, site, when)>>

\* config.py lines 166-178: get_sonnet_provider, get_haiku_provider,
\* get_opus_provider
getter_steps(key) ==
  LockedBlock("config.py:getter", <<Stp("read", {key}, "config.py:getter", "always")>>,
              "always")

ModelKeys == {"sonnet_model", "haiku_model", "opus_model"}

\* routing.py lines 76-84 and 178: the three getters, the three models under
\* one hold of the lock, and for a name of no tier the haiku getter once more
get_provider_config_steps(model) ==
  getter_steps("sonnet_provider") \o getter_steps("haiku_provider")
  \o getter_steps("opus_provider")
  \o LockedBlock("routing.py:81", <<Stp("read", ModelKeys, "routing.py:82", "always")>>,
                 "always")
  \o (IF DetectTier(model) = "Unknown" THEN getter_steps("haiku_provider") ELSE <<>>)
  \o <<Stp("route", {}, "routing.py:87", "always")>>

\* endpoints.py lines 44-55: the body is awaited, the request routed, and for
\* a misconfigured tier its provider is read again for the error message
proxy_request_steps(model) ==
  <<Stp("await", {}, "endpoints.py:44", "always")>>
  \o get_provider_config_steps(model)
  \o LockedBlock("endpoints.py:54",
                 <<Stp("read_configured", {}, "endpoints.py:55", "misconfigured")>>,
                 "misconfigured")

\* config.py lines 198-206: save_config
save_config_steps ==
  LockedBlock("config.py:201", <<Stp("dump", {}, "config.py:203", "always")>>, "always")

\* config.py lines 181-195: load_config, on the config.json it finds
load_config_steps(file) ==
  IF file.state = "absent" THEN save_config_steps
  ELSE IF file.state = "ok"
  THEN LockedBlock("config.py:188", <<Stp("load", {}, "config.py:189", "always")>>,
                   "always")
  ELSE <<>>

\* endpoints.py lines 298-301: get_config_endpoint
get_config_steps ==
  LockedBlock("endpoints.py:300",
              <<Stp("read", DOMAIN DefaultConfig, "endpoints.py:301", "always")>>, "always")

\* endpoints.py lines 373-402: update_config_endpoint
update_config_steps ==
  <<Stp("await", {}, "endpoints.py:376", "always"),
    Stp("validate", {}, "endpoints.py:377", "always")>>
  \o LockedBlock("endpoints.py:388", <<Stp("write", {}, "endpoints.py:389", "always")>>,
                 "always")
  \o save_config_steps
  \o <<Stp("read", DOMAIN DefaultConfig, "endpoints.py:401", "always")>>

\* config.py line 189: runtime_config.update(loaded_config), then last_updated
LoadedConfig(cfg, loaded, t) ==
  [key \in DOMAIN cfg \cup DOMAIN loaded \cup {"last_updated"} |->
     IF key = "last_updated" THEN t
     ELSE IF key \in DOMAIN loaded THEN loaded[key] ELSE cfg[key]]

\* the step handler p is at
CurStep(p) == lk.procs[p].prog[lk.procs[p].pc]

\* handler p has steps left
Unfinished(p) == lk.procs[p].op # "none" /\ lk.procs[p].pc <= Len(lk.procs[p].prog)

\* every thread may run at any time
LoopFree_Threads(p) == TRUE

\* the event loop runs one coroutine until it awaits or returns
LoopFree(p) == lk.running \in {NoHolder, p}

\* the step p is at is left out: the router did not answer 'misconfigured'
Skipped(p) ==
  /\ CurStep(p).when = "misconfigured"
  /\ lk.procs[p].result.provider_type # "misconfigured"

\* handler p may take its next step, which is one of kinds
Ready(p, kinds) ==
  /\ Unfinished(p)
  /\ LoopFree(p)
  /\ ~Skipped(p)
  /\ CurStep(p).k \in kinds

\* who runs on the event loop after p's step: p, unless it awaits or is done
RunsNext(p, pc) ==
  IF pc > Len(lk.procs[p].prog) \/ CurStep(p).k = "await" THEN NoHolder ELSE p

\* the places that touched runtime_config without the lock, after p's step
Touched(p) ==
  IF lk.lock = p THEN lk.unlocked ELSE lk.unlocked \cup {CurStep(p).site}

\* f"{tier.lower()}_provider", endpoints.py line 55
TierProviderKey(tier) ==
  CASE tier = "Sonnet" -> "sonnet_provider"
    [] tier = "Haiku" -> "haiku_provider"
    [] tier = "Opus" -> "opus_provider"
    [] OTHER -> "unknown_provider"

\* startup, proxy.py line 1884: the main thread runs load_config
Startup ==
  [IdleLock EXCEPT
     !.history = <<runtime_config>>,
     !.procs[Main] = [IdleProc EXCEPT !.op = "load_config",
                                      !.prog = load_config_steps(config_file)]]

\* a request arrives and its handler is called; the server takes requests once
\* load_config has returned. The handlers are numbered as their requests arrive.
Arrive(p, op, model, body) ==
  /\ lk.procs[p].op = "none"
  /\ IF p = 1 THEN TRUE ELSE lk.procs[p - 1].op # "none"
  /\ ~Unfinished(Main)
  /\ lk' = [lk EXCEPT !.procs[p] =
       [IdleProc EXCEPT
          !.op = op, !.model = model, !.body = body, !.arrived = lk.version,
          !.prog = CASE op = "proxy_request" -> proxy_request_steps(model)
                     [] op = "get_config" -> get_config_steps
                     [] op = "update_config" -> update_config_steps]]
  /\ UNCHANGED <<runtime_config, config_file>>

\* with config_lock: entered, waiting while another holds the lock, or left
LockStep(p) ==
  /\ Ready(p, {"acquire", "release"})
  /\ CurStep(p).k = "acquire" => lk.lock = NoHolder
  /\ lk' = [lk EXCEPT !.lock = IF CurStep(p).k = "acquire" THEN p ELSE NoHolder,
                      !.procs[p].pc = @ + 1,
                      !.running = RunsNext(p, lk.procs[p].pc + 1)]
  /\ UNCHANGED <<runtime_config, config_file>>

\* runtime_config.get(..) and runtime_config.copy()
ReadStep(p) ==
  /\ Ready(p, {"read", "read_configured"})
  /\ LET keys == IF CurStep(p).k = "read" THEN CurStep(p).keys
                 ELSE {TierProviderKey(lk.procs[p].result.tier)}
         got == [key \in keys |-> Get(runtime_config, key, "unknown")]
     IN lk' = [lk EXCEPT
          !.procs[p].reads = [key \in DOMAIN @ \cup keys |->
                                IF key \in keys THEN got[key] ELSE @[key]],
          !.procs[p].seen = IF CurStep(p).site \in {"config.py:getter", "routing.py:82"}
                            THEN @ \cup {lk.version} ELSE @,
          !.procs[p].status = IF lk.procs[p].pc = Len(lk.procs[p].prog) /\ @ = 0
                              THEN 200 ELSE @,
          !.procs[p].pc = @ + 1,
          !.unlocked = Touched(p),
          !.running = RunsNext(p, lk.procs[p].pc + 1)]
  /\ UNCHANGED <<runtime_config, config_file>>

\* runtime_config[key] = value for the accepted keys, or runtime_config.update
WriteStep(p) ==
  /\ Ready(p, {"write", "load"})
  /\ lk.version < MaxConfigPosts + 1
  /\ runtime_config' =
       IF CurStep(p).k = "write"
       THEN ApplyUpdates(runtime_config, ParsedBody(lk.procs[p].body), lk.version + 1)
       ELSE LoadedConfig(runtime_config, config_file.content, lk.version + 1)
  /\ lk' = [lk EXCEPT !.version = @ + 1,
                      !.history = Append(@, runtime_config'),
                      !.procs[p].pc = @ + 1,
                      !.unlocked = Touched(p),
                      !.running = RunsNext(p, lk.procs[p].pc + 1)]
  /\ UNCHANGED config_file

\* json.dump(runtime_config, f) in save_config
DumpStep(p, outcome) ==
  /\ Ready(p, {"dump"})
  /\ config_file' = save_config(runtime_config, config_file, outcome)
  /\ lk' = [lk EXCEPT !.procs[p].pc = @ + 1,
                      !.unlocked = Touched(p),
                      !.running = RunsNext(p, lk.procs[p].pc + 1)]
  /\ UNCHANGED runtime_config

\* await request.body(): the coroutine gives the event loop away
AwaitStep(p) ==
  /\ Ready(p, {"await"})
  /\ lk' = [lk EXCEPT !.procs[p].pc = @ + 1, !.running = NoHolder]
  /\ UNCHANGED <<runtime_config, config_file>>

\* endpoints.py lines 377-386: a body that is no object is answered 500 and an
\* invalid provider 400, and the handler returns
ValidateStep(p) ==
  /\ Ready(p, {"validate"})
  /\ LET body == lk.procs[p].body
         status == IF body.kind \in {"invalid", "nonobject"} THEN 500
                   ELSE IF InvalidProvider(ParsedBody(body)) THEN 400 ELSE 0
     IN lk' = [lk EXCEPT
          !.procs[p].status = status,
          !.procs[p].pc = IF status = 0 THEN @ + 1 ELSE Len(lk.procs[p].prog) + 1,
          !.running = IF status = 0 THEN p ELSE NoHolder]
  /\ UNCHANGED <<runtime_config, config_file>>

\* routing.py lines 87-186: the decision, on what the call has read
RouteStep(p) ==
  /\ Ready(p, {"route"})
  /\ LET r == lk.procs[p].reads
         result == get_provider_config_at(lk.procs[p].model,
                     r.sonnet_provider, r.haiku_provider, r.opus_provider,
                     r.sonnet_model, r.haiku_model, r.opus_model, r.haiku_provider, env)
     IN lk' = [lk EXCEPT !.procs[p].result = result,
                         !.procs[p].pc = @ + 1,
                         !.running = p]
  /\ UNCHANGED <<runtime_config, config_file>>

\* the router answered something else than 'misconfigured': lines 54-55 are
\* not run
SkipStep(p) ==
  /\ Unfinished(p)
  /\ LoopFree(p)
  /\ Skipped(p)
  /\ lk' = [lk EXCEPT !.procs[p].pc = @ + 1,
                      !.running = RunsNext(p, lk.procs[p].pc + 1)]
  /\ UNCHANGED <<runtime_config, config_file>>

\* the model names of the requests: one of a tier and one of none
LockModels == {N_claude_sonnet, N_gpt_4}

\* the bodies POSTed to /config
LockBodies ==
  { [kind |-> "object", json |-> [sonnet_provider |-> "glm", sonnet_model |-> N_glm_47]],
    [kind |-> "object", json |-> [opus_provider |-> "nope"]],
    [kind |-> "nonobject", json |-> EmptyObject] }

\* config.json at startup: none, the defaults, and one that names a provider
\* that does not exist for the sonnet tier
StartupFiles ==
  { [state |-> "absent", content |-> EmptyObject],
    [state |-> "ok", content |-> DefaultConfig],
    [state |-> "ok", content |-> [sonnet_provider |-> "bogus"]] }

InitLock ==
  /\ env = FullEnv
  /\ runtime_config = DefaultConfig
  /\ rt = [model |-> <<>>, result |-> None, done |-> FALSE, config |-> DefaultConfig]
  /\ InitOAuthIdle
  /\ creds = NoCredsFile("absent")
  /\ InitTrackerIdle
  /\ InitProxyIdle
  /\ InitAuthIdle
  /\ config_file \in StartupFiles
  /\ cf = [h \in ConfigHandlers |-> IdleConfigHandler]
  /\ InitSanitizeIdle
  /\ InitStoreIdle
  /\ lk = Startup
  /\ InitStopIdle

NextLock ==
  \/ \E p \in Procs : \E model \in LockModels :
       Arrive(p, "proxy_request", model, IdleProc.body)
  \/ \E p \in Procs : \E body \in LockBodies : Arrive(p, "update_config", <<>>, body)
  \/ \E p \in Procs : Arrive(p, "get_config", <<>>, IdleProc.body)
  \/ \E p \in 1..(MaxProcs + 1) : LockStep(p)
  \/ \E p \in 1..(MaxProcs + 1) : ReadStep(p)
  \/ \E p \in 1..(MaxProcs + 1) : WriteStep(p)
  \/ \E p \in 1..(MaxProcs + 1) : \E outcome \in SaveOutcomes : DumpStep(p, outcome)
  \/ \E p \in 1..(MaxProcs + 1) : AwaitStep(p)
  \/ \E p \in 1..(MaxProcs + 1) : ValidateStep(p)
  \/ \E p \in 1..(MaxProcs + 1) : RouteStep(p)
  \/ \E p \in 1..(MaxProcs + 1) : SkipStep(p)

SpecLock ==
  InitLock /\ [][NextLock /\ UNCHANGED <<env, rt, oauthVars, trackerVars, proxyVars,
                                        authVars, cf, sanitizeVars, storeVars, stopVars>>]_vars

(***************************************************************************)
(* Claims about the lock of RuntimeConfig and about the routing snapshot.  *)
(***************************************************************************)
\* C33: lock discipline. Every read and every write of RuntimeConfig, in the
\* getters, the router, the dispatcher, load_config, save_config and the
\* handlers of GET /config and POST /config, happens while config_lock is held.
C33_AlwaysUnderLock == lk.unlocked = {}

\* what does hold: every read and write happens under the lock but one, the
\* copy of runtime_config that update_config_endpoint puts into its response
C33_UnderLockButResponse == lk.unlocked \subseteq {"endpoints.py:401"}


\* the handler p of a request has its routing decision
Routed(p) ==
  /\ lk.procs[p].op = "proxy_request"
  /\ lk.procs[p].pc > Len(get_provider_config_steps(lk.procs[p].model)) + 1

\* C34: classification and routing are a pure function of the model name and
\* one RuntimeConfig snapshot. The providers and the model names one call of
\* get_provider_config uses come from the same version of RuntimeConfig, also
\* when a POST /config runs concurrently with the request, and two calls with
\* the same name and the same snapshot return the same result.
C34_OneSnapshot ==
  \A p \in Procs :
    Routed(p) =>
      \E v \in 0..lk.version :
        /\ lk.procs[p].seen = {v}
        /\ lk.procs[p].result =
             get_provider_config(lk.procs[p].model, lk.history[v + 1], env)
        /\ \A q \in Procs :
             (Routed(q) /\ lk.procs[q].model = lk.procs[p].model /\ lk.procs[q].seen = {v})
             => lk.procs[q].result = lk.procs[p].result

\* a request for a sonnet model had arrived and was waiting for its body when a
\* POST /config moved the sonnet tier to glm; the request was then routed, all
\* of it on the new configuration
C34_Witness ==
  \E p \in Procs : \E q \in Procs :
    /\ Routed(p) /\ lk.procs[p].model = N_claude_sonnet
    /\ lk.procs[q].op = "update_config" /\ lk.procs[q].status = 200
    /\ lk.procs[p].seen = {lk.procs[p].arrived + 1}
    /\ lk.procs[p].result.provider_type = "zai"
    /\ lk.procs[p].result.translated_model = N_glm_47


(***************************************************************************)
(* Claims about what a UsageRecord carries.                                *)
(***************************************************************************)
\* the record appended for the request
AppendedRecord == data.history[Len(data.history)]

\* the usage object of the upstream's answer
UpstreamUsage == px.upstream.json.usage

\* the record carries the upstream's token counts, the tag of the backend that
\* served the request and the outbound model
CarriesCountsBackendModel ==
  /\ AppendedRecord.input_tokens = Get(UpstreamUsage, "input_tokens", JInt(0)).v
  /\ AppendedRecord.output_tokens = Get(UpstreamUsage, "output_tokens", JInt(0)).v
  /\ AppendedRecord.provider = px.backend
  /\ AppendedRecord.model = px.body_json.model

\* C35: every UsageRecord appended for a request carries the upstream's
\* input_tokens and output_tokens, the provider tag of the backend that served
\* the request, the outbound model, and the tier the router classified the
\* request into, for every backend: the by_tier bucket updated is that tier.
C35_RecordCarriesRequest ==
  (px.pc = "done" /\ AppendedRecords = 1)
  => /\ CarriesCountsBackendModel
     /\ AppendedRecord.tier = px.route.tier
     /\ px.route.tier \in DOMAIN data.by_tier

\* what does hold: counts, backend and model are right for every backend; the
\* tier is the router's for the requests proxy_request sends itself, and the
\* word 'unknown' for the four adapters
C35_TierOnlyWithoutAdapter ==
  (px.pc = "done" /\ AppendedRecords = 1)
  => /\ CarriesCountsBackendModel
     /\ AppendedRecord.tier = IF px.backend \in {"zai", "anthropic"}
                              THEN px.route.tier ELSE "unknown"
     /\ AppendedRecord.tier \in DOMAIN data.by_tier

(***************************************************************************)
(* core/sanitize.py: fix_streaming_tool_inputs on the lines of a stream.   *)
(***************************************************************************)
\* the longest stream body, in lines
MaxLines == 2

\* A line of the body, as split('\n') leaves it. data: the line starts with
\* 'data: '. text: what follows is '[DONE]' up to blanks ("done"), is not JSON
\* ("broken"), is JSON that is not an object ("scalar") or is a JSON object
\* ("event", the object in event); for a line without the prefix, the line
\* itself. form: the bytes of the JSON are the upstream's or those json.dumps
\* writes. enc: the bytes of the line are UTF-8 ("utf8"), hold a sequence that
\* is not ("invalid"), or hold U+FFFD where such a sequence was ("replaced").
StreamLine(prefixed, text, event, enc) ==
  [data |-> prefixed, text |-> text, event |-> event, form |-> "upstream", enc |-> enc]

\* events of a stream
E_start_object ==
  [type |-> "content_block_start", index |-> "0",
   content_block |-> [type |-> "tool_use", id |-> "x", name |-> "f",
                      input |-> JStr("object")]]

E_start_invalid ==
  [type |-> "content_block_start", index |-> "0",
   content_block |-> [type |-> "tool_use", id |-> "x", name |-> "f",
                      input |-> JStr("invalid")]]

E_start_dict ==
  [type |-> "content_block_start", index |-> "0", content_block |-> SB_tool_use_dict]

E_start_text ==
  [type |-> "content_block_start", index |-> "0",
   content_block |-> [type |-> "text", text |-> "", input |-> JStr("object")]]

E_start_nodict == [type |-> "content_block_start", content_block |-> JStr("x")]

E_delta_tool ==
  [type |-> "content_block_delta", index |-> "0",
   delta |-> [type |-> "tool_use", input |-> JStr("blank")]]

E_delta_text ==
  [type |-> "content_block_delta", index |-> "0",
   delta |-> [type |-> "text_delta", text |-> "t"]]

E_message ==
  [type |-> "message_start",
   message |-> [id |-> "m", role |-> "assistant",
                content |-> JList(<<B_text, B_tool_use, JStr("s"), SB_tool_use_dict>>)]]

E_message_nolist ==
  [type |-> "message_start", message |-> [id |-> "m", content |-> JStr("s")]]

E_elsewhere ==
  [type |-> "ping", other |-> [type |-> "tool_use", input |-> JStr("object")],
   delta |-> [type |-> "tool_use", input |-> JStr("scalar")]]

StreamEvents ==
  { E_start_object, E_start_invalid, E_start_dict, E_start_text, E_start_nodict,
    E_delta_tool, E_delta_text, E_message, E_message_nolist, E_elsewhere }

\* the lines a body is made of
StreamLines ==
  { StreamLine(FALSE, text, EmptyObject, enc) :
      text \in {"", "event: content_block_start", ": keep-alive"},
      enc \in {"utf8", "invalid"} }
  \cup { StreamLine(TRUE, text, EmptyObject, enc) :
           text \in {"done", "broken", "scalar"}, enc \in {"utf8", "invalid"} }
  \cup { StreamLine(TRUE, "event", e, enc) :
           e \in StreamEvents, enc \in {"utf8", "invalid"} }

StreamBodies == UNION { [1..k -> StreamLines] : k \in 1..MaxLines }

\* line 190: decode('utf-8', errors='replace') puts U+FFFD in the place of
\* every byte sequence that is not UTF-8
Decoded(line) ==
  IF line.enc = "invalid" THEN [line EXCEPT !.enc = "replaced"] ELSE line

\* the delta of an event is left as it arrived
FixStreamEvent_LeavesDelta(event) ==
  LET blk == IF "content_block" \in DOMAIN event /\ IsDict(event.content_block)
             THEN [event EXCEPT !.content_block = fix_tool_input(@)]
             ELSE event
  IN IF "message" \in DOMAIN blk /\ IsDict(blk.message) /\ IsListAt(blk.message, "content")
     THEN [blk EXCEPT !.message.content =
             JList([i \in DOMAIN @.list |->
                      IF IsDict(@.list[i]) THEN fix_tool_input(@.list[i])
                      ELSE @.list[i]])]
     ELSE blk

\* lines 200-211: the three places of an event that are repaired
FixStreamEvent(event) ==
  LET blk == IF "content_block" \in DOMAIN event /\ IsDict(event.content_block)
             THEN [event EXCEPT !.content_block = fix_tool_input(@)]
             ELSE event
      dlt == IF "delta" \in DOMAIN blk /\ IsDict(blk.delta)
             THEN [blk EXCEPT !.delta = fix_tool_input(@)]
             ELSE blk
  IN IF "message" \in DOMAIN dlt /\ IsDict(dlt.message) /\ IsListAt(dlt.message, "content")
     THEN [dlt EXCEPT !.message.content =
             JList([i \in DOMAIN @.list |->
                      IF IsDict(@.list[i]) THEN fix_tool_input(@.list[i])
                      ELSE @.list[i]])]
     ELSE dlt

\* lines 194-216, for one line of the decoded text: a line without the prefix
\* and the terminator are appended as they are (195-197); json.loads raises on
\* text that is not JSON and event.get raises on JSON that is not an object,
\* and the handler appends the line (215-216); an event is repaired and written
\* again by json.dumps (213)
FixStreamLine(line) ==
  IF ~line.data \/ line.text = "done" THEN line
  ELSE IF line.text \in {"broken", "scalar"} THEN line
  ELSE [line EXCEPT !.event = FixStreamEvent(@), !.form = "dumps"]

\* lines 190-218: one line appended for each line of the text, joined by '\n'
\* again; json.dumps writes no line feed
FixStreamBody(lines) ==
  [i \in DOMAIN lines |-> FixStreamLine(Decoded(lines[i]))]

\* a body arrives from the upstream
InitStream ==
  /\ InitRouteIdle
  /\ InitOAuthIdle
  /\ creds = NoCredsFile("absent")
  /\ InitTrackerIdle
  /\ InitProxyIdle
  /\ InitAuthIdle
  /\ InitConfigIdle
  /\ InitStoreIdle
  /\ InitLockIdle
  /\ InitStopIdle
  /\ \E lines \in StreamBodies :
       sz = [IdleSanitizer EXCEPT !.pc = "stream", !.body = lines]

\* providers.py line 315: the adapter passes the whole body through the repair
FixStream ==
  /\ sz.pc = "stream"
  /\ sz' = [sz EXCEPT !.pc = "repaired", !.once = FixStreamBody(sz.body)]

NextStream == FixStream

SpecStream ==
  InitStream /\ [][NextStream /\ UNCHANGED <<routeVars, oauthVars, trackerVars,
                                            proxyVars, authVars, configVars,
                                            storeVars, lockVars, stopVars>>]_vars

(***************************************************************************)
(* Claims about the repair of a stream.                                    *)
(***************************************************************************)
\* b is a: a tool_use object whose input was a string has the parsed object
\* or {} in its place, and nothing else differs
SameButInput(a, b) ==
  IF IsDict(a) /\ Get(a, "type", None) = "tool_use" /\ IsStrAt(a, "input")
  THEN /\ DOMAIN b = DOMAIN a
       /\ DelKey(b, "input") = DelKey(a, "input")
       /\ b.input = IF a.input.str = "object" THEN [dict |-> "parsed"]
                    ELSE [dict |-> "empty"]
  ELSE b = a

\* the event o is the event e but for the tool inputs of its content_block,
\* its delta and the entries of its message.content
EventRepaired(e, o) ==
  /\ DOMAIN o = DOMAIN e
  /\ \A k \in DOMAIN e :
       IF k \in {"content_block", "delta"} THEN SameButInput(e[k], o[k])
       ELSE IF k = "message" /\ IsDict(e[k]) /\ IsListAt(e[k], "content")
       THEN /\ DOMAIN o[k] = DOMAIN e[k]
            /\ DelKey(o[k], "content") = DelKey(e[k], "content")
            /\ IsListAt(o[k], "content")
            /\ DOMAIN o[k].content.list = DOMAIN e[k].content.list
            /\ \A i \in DOMAIN e[k].content.list :
                 SameButInput(e[k].content.list[i], o[k].content.list[i])
       ELSE o[k] = e[k]

\* line i of the output is line i of the input: the same bytes if it is not an
\* event, the event with nothing but its tool inputs repaired if it is one
LinePreserved(i) ==
  IF sz.body[i].data /\ sz.body[i].text = "event"
  THEN /\ sz.once[i].data /\ sz.once[i].text = "event"
       /\ sz.once[i].enc = sz.body[i].enc
       /\ EventRepaired(sz.body[i].event, sz.once[i].event)
  ELSE sz.once[i] = sz.body[i]

RoutedToAnthropicNoToken ==
  /\ px.reached
  /\ DOMAIN px.route # {}
  /\ ~Misconfigured(px.route)
  /\ Backend(px.route) = "anthropic"
  /\ ~Truthy(px.oauth_token)

MaxSignals == 2

\* how far the clock runs, in seconds
MaxClock == 15

\* line 120: wait(timeout=5)
STOP_TIMEOUT == 5

\* antigravity_process holds a Popen object
Held == "held"

\* an invocation that has just been entered. by is who called it; saw is the
\* handle its test found; did, timed_out and interrupted are history: the
\* calls it made on the handle, whether its wait ended by TimeoutExpired, and
\* whether a handler ran while it was under way.
StopFrame(by) ==
  [by |-> by, pc |-> "test", saw |-> "untested", deadline |-> 0, did |-> <<>>,
   timed_out |-> FALSE, interrupted |-> FALSE]

\* the invocation that is running
Top == agp.stack[Len(agp.stack)]

Running(pc) == agp.stack # <<>> /\ Top.pc = pc

\* the running invocation goes on
Goes(frame) == [agp.stack EXCEPT ![Len(agp.stack)] = frame]

\* what the main thread does once nothing is left on the stack
PhaseAfter(phase) ==
  CASE phase = "finally" -> "unwound"
    [] phase = "atexit" -> "exited"
    [] OTHER -> phase

\* how an invocation that is over is remembered
Ended(frame, how) ==
  [by |-> frame.by, saw |-> frame.saw, did |-> frame.did, how |-> how,
   timed_out |-> frame.timed_out, interrupted |-> frame.interrupted]

\* the running invocation returns to its caller
Returns(frame, handle) ==
  LET rest == SubSeq(agp.stack, 1, Len(agp.stack) - 1)
  IN agp' = [agp EXCEPT !.handle = handle, !.stack = rest,
                        !.phase = IF rest = <<>> THEN PhaseAfter(@) ELSE @,
                        !.ended = Append(@, Ended(frame, "returned"))]

\* antigravity_process is None where a method of it is called: AttributeError.
\* No handler catches it (line 121 catches TimeoutExpired only), so it leaves
\* the invocation and every invocation it interrupted. An exception that
\* leaves a signal handler while uvicorn.run is on the stack reaches the
\* finally block of proxy.py line 1961, which calls cleanup.
Raises ==
  LET n == Len(agp.stack)
      unwound == [i \in 1..n |-> Ended(agp.stack[n + 1 - i], "raised")]
  IN agp' = [agp EXCEPT
               !.stack = IF agp.phase = "serving" THEN <<StopFrame("finally")>> ELSE <<>>,
               !.phase = IF agp.phase = "serving" THEN "finally" ELSE PhaseAfter(@),
               !.ended = @ \o unwound]

\* line 116: if antigravity_process
Test ==
  /\ Running("test")
  /\ IF agp.handle = None
     THEN Returns([Top EXCEPT !.saw = None], agp.handle)
     ELSE agp' = [agp EXCEPT !.stack = Goes([Top EXCEPT !.saw = Held, !.pc = "terminate"])]

\* line 118: antigravity_process.terminate()
Terminate ==
  /\ Running("terminate")
  /\ IF agp.handle = None THEN Raises
     ELSE agp' = [agp EXCEPT !.sent = Append(@, "terminate"),
                             !.stack = Goes([Top EXCEPT !.pc = "wait",
                                                        !.did = Append(@, "terminate")])]

\* line 120: antigravity_process.wait(timeout=5) is called
Wait ==
  /\ Running("wait")
  /\ IF agp.handle = None THEN Raises
     ELSE agp' = [agp EXCEPT !.stack = Goes([Top EXCEPT !.pc = "waiting",
                                                        !.deadline = agp.clock + STOP_TIMEOUT,
                                                        !.did = Append(@, "wait")])]

\* line 120: wait returns, the helper has exited
WaitReturns ==
  /\ Running("waiting")
  /\ agp.child = "exited"
  /\ agp' = [agp EXCEPT !.stack = Goes([Top EXCEPT !.pc = "clear"])]

\* lines 121-122: wait raises TimeoutExpired, the helper has not exited
WaitTimesOut ==
  /\ Running("waiting")
  /\ agp.child = "running"
  /\ agp.clock >= Top.deadline
  /\ agp' = [agp EXCEPT !.stack = Goes([Top EXCEPT !.pc = "kill", !.timed_out = TRUE])]

\* line 123: antigravity_process.kill()
Kill ==
  /\ Running("kill")
  /\ IF agp.handle = None THEN Raises
     ELSE agp' = [agp EXCEPT !.sent = Append(@, "kill"),
                             !.stack = Goes([Top EXCEPT !.pc = "clear",
                                                        !.did = Append(@, "kill")])]

\* line 124: antigravity_process = None
Clear ==
  /\ Running("clear")
  /\ Returns([Top EXCEPT !.did = Append(@, "clear")], None)

\* proxy.py lines 1956-1957: SIGTERM or SIGINT arrives and its handler calls
\* cleanup, whatever the main thread is doing
Signal ==
  /\ agp.signals < MaxSignals
  /\ agp.phase # "exited"
  /\ agp' = [agp EXCEPT
               !.signals = @ + 1,
               !.stack = IF @ = <<>> THEN <<StopFrame("signal")>>
                         ELSE Append(Goes([Top EXCEPT !.interrupted = TRUE]),
                                     StopFrame("signal"))]

\* proxy.py lines 1959-1962: uvicorn.run returns and the finally block calls
\* cleanup
Finally ==
  /\ agp.phase = "serving" /\ agp.stack = <<>>
  /\ agp' = [agp EXCEPT !.phase = "finally", !.stack = <<StopFrame("finally")>>]

\* proxy.py line 1955: the interpreter exits and calls the atexit hook
AtExit ==
  /\ agp.phase = "unwound" /\ agp.stack = <<>>
  /\ agp' = [agp EXCEPT !.phase = "atexit", !.stack = <<StopFrame("atexit")>>]

\* the helper exits, of itself or because of a signal it was sent
HelperExits ==
  /\ agp.child = "running"
  /\ agp' = [agp EXCEPT !.child = "exited"]

\* a second passes while wait polls the helper
Second ==
  /\ Running("waiting")
  /\ agp.child = "running"
  /\ agp.clock < Top.deadline
  /\ agp.clock < MaxClock
  /\ agp' = [agp EXCEPT !.clock = @ + 1]

\* start_antigravity_server has run: the helper is disabled or npx was not
\* found (lines 18-45), the helper runs (lines 60-74), or it has exited
\* during startup and the handle is kept (lines 85-87)
InitStop ==
  /\ InitRouteIdle
  /\ InitOAuthIdle
  /\ creds = NoCredsFile("absent")
  /\ InitTrackerIdle
  /\ InitProxyIdle
  /\ InitAuthIdle
  /\ InitConfigIdle
  /\ InitSanitizeIdle
  /\ InitStoreIdle
  /\ InitLockIdle
  /\ agp \in { IdleStop,
               [IdleStop EXCEPT !.handle = Held, !.child = "running"],
               [IdleStop EXCEPT !.handle = Held, !.child = "exited"] }

NextStop ==
  \/ Test
  \/ Terminate
  \/ Wait
  \/ WaitReturns
  \/ WaitTimesOut
  \/ Kill
  \/ Clear
  \/ Signal
  \/ Finally
  \/ AtExit
  \/ HelperExits
  \/ Second

SpecStop ==
  InitStop /\ [][NextStop /\ UNCHANGED <<routeVars, oauthVars, trackerVars, proxyVars,
                                        authVars, configVars, sanitizeVars, storeVars,
                                        lockVars>>]_vars

(***************************************************************************)
(* Claims about the shutdown of the helper.                                *)
(***************************************************************************)
\* the calls an invocation makes on a handle it found: terminate, wait, kill
\* if and only if the wait ended by TimeoutExpired, and the clearing
StopOrder(f) ==
  /\ f.how = "returned"
  /\ f.did = IF f.timed_out THEN <<"terminate", "wait", "kill", "clear">>
             ELSE <<"terminate", "wait", "clear">>

\* an invocation that found no handle did nothing
StopNothing(f) == f.how = "returned" /\ f.did = <<>>

\* C38: shutdown order. stop_antigravity_server, when a handle is held, sends
\* terminate first, waits up to 5 s, sends kill only if the helper has not
\* exited by then, and finally clears the handle; because the handle is
\* cleared, further invocations (the atexit hook, the handler of SIGINT and
\* SIGTERM and the finally block may all run) do nothing, and with no handle
\* held it does nothing.
C38_ShutdownOrder ==
  /\ \A i \in DOMAIN agp.ended :
       /\ agp.ended[i].saw = Held => StopOrder(agp.ended[i])
       /\ agp.ended[i].saw = None => StopNothing(agp.ended[i])
  /\ (\E i \in DOMAIN agp.ended : agp.ended[i].saw = Held) => agp.handle = None

\* what does hold: the same for every invocation during which no signal
\* handler ran; and whatever the invocations, the helper is sent terminate
\* before anything else and kill only after a wait of 5 s in which it did not
\* exit, and an invocation that found no handle sends nothing
C38_ShutdownOrderUninterrupted ==
  /\ \A i \in DOMAIN agp.ended :
       ~agp.ended[i].interrupted =>
         /\ agp.ended[i].saw # "untested"
         /\ agp.ended[i].saw = Held => StopOrder(agp.ended[i])
         /\ agp.ended[i].saw = None => StopNothing(agp.ended[i])
  /\ (\E i \in DOMAIN agp.ended : agp.ended[i].saw = Held /\ agp.ended[i].how = "returned")
     => agp.handle = None
  /\ agp.sent # <<>> => agp.sent[1] = "terminate"
  /\ \A i \in DOMAIN agp.sent : agp.sent[i] = "kill" => agp.clock >= STOP_TIMEOUT
  /\ \A i \in DOMAIN agp.stack : agp.stack[i].saw = None => agp.stack[i].did = <<>>

(***************************************************************************)
(* Claims about the aggregates of the usage tracker.                       *)
(***************************************************************************)
\* the sum of one counter over the entries of a bucket map
SumStats(by, counter) ==
  LET RECURSIVE Sum(_)
      Sum(keys) ==
        IF keys = {} THEN 0
        ELSE LET key == CHOOSE k \in keys : TRUE
             IN by[key][counter] + Sum(keys \ {key})
  IN Sum(DOMAIN by)

\* the three totals equal the sums over each of the three bucket maps
TotalsAreSums(d, by) ==
  /\ d.total_requests = SumStats(by, "requests")
  /\ d.total_input_tokens = SumStats(by, "input_tokens")
  /\ d.total_output_tokens = SumStats(by, "output_tokens")

AggregatesConsistent(d) ==
  /\ TotalsAreSums(d, d.by_provider)
  /\ TotalsAreSums(d, d.by_model)
  /\ TotalsAreSums(d, d.by_tier)

\* the tracker started empty, or was reset since
FromEmpty ==
  /\ tk.pc = "ready"
  /\ tk.was_reset \/ tk.constructed_on.state \notin {"ok", "other_json"}

\* C39: aggregate consistency of the usage tracker. In every state reachable
\* from an empty tracker by record_usage and reset_stats, total_requests equals
\* the sum of requests over by_provider, over by_model and over by_tier, and
\* total_input_tokens and total_output_tokens equal the sums of input_tokens
\* and output_tokens in each of the three bucket maps.
C39_AggregatesConsistent ==
  FromEmpty => AggregatesConsistent(data)

\* what does hold: the same as long as every call of record_usage was made
\* with token counts that are numbers
C39_AggregatesConsistentNumeric ==
  (FromEmpty /\ tk.numeric) => AggregatesConsistent(data)

====
